---- MODULE Spec2Model ----
(***************************************************************************)
(* Voice manager of AudioEngine (src/src/lib/audio/AudioEngine.ts): the    *)
(* voice table, polyphony cap and voice stealing, note-on / note-off, the  *)
(* legacy drone tone, instrument selection with asynchronous sample loads, *)
(* and the timers and end-of-playback events that retire released voices.  *)
(*                                                                         *)
(* Time: every scheduled stop and timer is kept as the milliseconds that   *)
(* remain until it is due, and runs when they reach 0 (the event loop is   *)
(* idle), so Tick never steps over a pending deadline.  The time stamps    *)
(* the code takes from ctx.currentTime (startedAt, the drum keys) are only *)
(* compared with each other, so clock numbers the instants in order.       *)
(***************************************************************************)
EXTENDS Integers, Sequences, FiniteSets, TLC

\* ---- bounds of the model ----
MaxId == 3            \* note ids are 1..MaxId
MaxObjs == 3          \* voice objects alive (sounding or not yet retired) at once
MaxLoads == 2         \* instrument loads in flight (or failed and still referenced)
MaxDeferred == 2      \* note-ons queued on pending loads
TickStep == 60        \* milliseconds that pass in a Tick while nothing is scheduled
MaxVoicesInput == 2   \* largest argument given to setMaxVoices
MaxCalls == 4         \* calls of the public API in a run
MaxNotes == 3         \* playNote calls of the sound-font hook in a run

\* ---- constants of the program ----
DefaultMaxVoices == 16
DefaultRelease == 200
MinRamp == 1
StopPad == 10
DisconnectPad == 50
DrumDisconnect == 50
STEP_COUNT == 32
SampleAttack == 10

Ids == 1..MaxId
ReleaseInputs == {-1}
InstrumentIds == {"synth", "piano", "drums"}

Max(a, b) == IF a > b THEN a ELSE b

\* BASE_INSTRUMENT_LIBRARY: the definitions the registry starts with
BuiltInInstrumentIds == {"synth", "piano", "guitar", "organ", "bass", "drums"}
BASE_INSTRUMENT_LIBRARY ==
    [id \in BuiltInInstrumentIds |->
        [kind |-> CASE id = "synth" -> "engine" [] id = "drums" -> "drumkit" [] OTHER -> "sample",
         rootNote |-> CASE id \in {"piano", "guitar", "organ"} -> 60 [] id = "bass" -> 36
                        [] OTHER -> 0,
         buffer |-> FALSE]]

\* ---- JavaScript numbers ----
\* A number is NaN or a finite value counted in units of 1/Unit.
Unit == 10000
NaN == [nan |-> TRUE, v |-> 0]
Num(n) == [nan |-> FALSE, v |-> n]
\* Math.max and Math.min return NaN when an argument is NaN
MathMax(a, b) == IF a.nan \/ b.nan THEN NaN ELSE Num(Max(a.v, b.v))
MathMin(a, b) == IF a.nan \/ b.nan THEN NaN ELSE Num(IF a.v < b.v THEN a.v ELSE b.v)
MathFloor(a) == IF a.nan THEN NaN ELSE Num((a.v \div Unit) * Unit)
\* x * 0.5 and 1 - x
Half(a) == IF a.nan THEN NaN ELSE Num(a.v \div 2)
OneMinus(a) == IF a.nan THEN NaN ELSE Num(Unit - a.v)

\* ---- keys of the voice table: a caller's id, "drone", or `${id}-${now}` ----
IdKey(id) == [t |-> "id", id |-> id, at |-> 0]
DroneKey == [t |-> "drone", id |-> 0, at |-> 0]
DrumKey(id, now) == [t |-> "drum", id |-> id, at |-> now]

\* PLAYER_SCRIPT and INSTRUMENT_SCRIPT
ScriptUrls == {"player", "instrument"}

VARIABLES
    ctx,                \* this.ctx exists
    clock,              \* ctx.currentTime: the number of the current instant
    voices,             \* this.voices, a Map in insertion order: Seq of [key, kind, uid, startedAt, filter]
    objs,               \* audio objects not yet retired: uid -> [kind, key, running, stopIn, gen, out, since, rel, quick, filt]
    timers,             \* pending setTimeout callbacks: set of [in, uid, drone]
    osc,                \* this.osc: uid of the running drone oscillator, 0 when undefined
    maxVoices,          \* this.maxVoices
    release,            \* this.adsr.release, ms
    fenvAmount,         \* this.fenv.amountHz
    currentInstrument,  \* this.currentInstrument
    instrumentReady,    \* this.instrumentReady: a load promise, 0 when undefined
    loads,              \* load promises: p -> [inst, status, fetch]
    deferred,           \* reactions registered by noteOn on load promises: Seq of [p, id]
    sampleCache,        \* instruments whose samples are in this.sampleCache
    filterEnv,          \* last automation scheduled on the shared filter's frequency
    mixRamp,            \* a ramp to 0 is scheduled on mixGain.gain
    mixer,              \* mixGain.gain.value, lfoGainAmp.gain.value and the noise branch:
                        \* [made, gain, amp, noiseGain, noiseSrc, noiseOn]
    params,             \* the stored synthesis parameters (currentMaster, filterCutoff, ...)
    rec,                \* the recorder: recMode, wavChunks, the worklet nodes, MediaRecorder
    sp,                 \* the spectrum last built from the custom wave shape
    wav,                \* the file last written by encodeWav
    off,                \* the offline renders: the one in progress and the results
    defs,               \* this.instrumentDefs: id -> definition
    decoding,           \* addUserInstrument calls waiting for decodeAudioData: Seq of rootNote
    kb,                 \* the on-screen keyboard: pressed.current and the calls it has emitted
    seq,                \* the step sequencer's transport: its state, refs and step timers
    font,               \* the sound-font hook: its refs, the script elements, the calls in flight
    calls,              \* history: the number of API calls made so far
    lastOp,             \* history: the last call or event and its outcome
    burst               \* history: note-ons issued in a row since the voice table was empty

prog == <<ctx, clock, voices, objs, timers, osc, maxVoices, release, fenvAmount,
          currentInstrument, instrumentReady, loads, deferred, sampleCache,
          filterEnv, mixRamp, mixer, params, rec, sp, wav, off, defs, decoding,
          kb, seq, font>>
vars == <<ctx, clock, voices, objs, timers, osc, maxVoices, release, fenvAmount,
          currentInstrument, instrumentReady, loads, deferred, sampleCache,
          filterEnv, mixRamp, mixer, params, rec, sp, wav, off, defs, decoding,
          kb, seq, font, calls, lastOp, burst>>

\* the variables of the user-interface components, which the engine leaves alone
uiVars == <<kb, seq, font>>

\* the variables of the voice engine, which the recorder and the spectrum leave alone
voiceVars == <<clock, voices, objs, timers, osc, maxVoices, release, fenvAmount,
               currentInstrument, instrumentReady, loads, deferred, sampleCache,
               filterEnv, mixRamp, burst>>

\* this.instrumentDefs.get(id): the kind of the registered definition; an id
\* that is not in the registry has none.
defKind(inst) == IF inst \in DOMAIN defs THEN defs[inst].kind ELSE "none"

\* The engine's fields as one record, threaded through the method bodies.
\* res / stolen / made / log report what the call did (read by the history only).
Eng ==
    [ctx |-> ctx, clock |-> clock, voices |-> voices, objs |-> objs, timers |-> timers,
     osc |-> osc, maxVoices |-> maxVoices, release |-> release, fenvAmount |-> fenvAmount,
     currentInstrument |-> currentInstrument, instrumentReady |-> instrumentReady,
     loads |-> loads, deferred |-> deferred, sampleCache |-> sampleCache,
     filterEnv |-> filterEnv, mixRamp |-> mixRamp, mixer |-> mixer, params |-> params,
     res |-> "none", stolen |-> 0, made |-> 0, log |-> <<>>, ramps |-> <<>>]

Commit(S) ==
    /\ ctx' = S.ctx
    /\ clock' = S.clock
    /\ voices' = S.voices
    /\ objs' = S.objs
    /\ timers' = S.timers
    /\ osc' = S.osc
    /\ maxVoices' = S.maxVoices
    /\ release' = S.release
    /\ fenvAmount' = S.fenvAmount
    /\ currentInstrument' = S.currentInstrument
    /\ instrumentReady' = S.instrumentReady
    /\ loads' = S.loads
    /\ deferred' = S.deferred
    /\ sampleCache' = S.sampleCache
    /\ filterEnv' = S.filterEnv
    /\ mixRamp' = S.mixRamp
    /\ mixer' = S.mixer
    /\ params' = S.params
    /\ UNCHANGED <<rec, sp, wav, off, defs, decoding, uiVars>>

\* ---- Map operations on the voice table ----
Keys(vs) == {vs[i].key : i \in 1..Len(vs)}
HasKey(vs, k) == k \in Keys(vs)
IndexOf(vs, k) == CHOOSE i \in 1..Len(vs) : vs[i].key = k
Get(vs, k) == vs[IndexOf(vs, k)]
MapDelete(vs, k) == SelectSeq(vs, LAMBDA v : v.key # k)
MapSet(vs, v) ==
    IF HasKey(vs, v.key) THEN [vs EXCEPT ![IndexOf(vs, v.key)] = v] ELSE Append(vs, v)

\* ---- audio objects ----
FreeUid(S) ==
    CHOOSE u \in 1..(MaxObjs + MaxDeferred + 1) :
        /\ u \notin DOMAIN S.objs
        /\ u \notin {t.uid : t \in S.timers}
        /\ u \notin {S.voices[i].uid : i \in 1..Len(S.voices)}
        /\ u # S.osc
        /\ \A w \in 1..(u - 1) :
              \/ w \in DOMAIN S.objs
              \/ w \in {t.uid : t \in S.timers}
              \/ w \in {S.voices[i].uid : i \in 1..Len(S.voices)}
              \/ w = S.osc

\* an object with its generators stopped and every node disconnected is gone
\* (of the drone only the oscillator is followed, not its gain node)
Retired(o) == ~o.running /\ ~o.gen /\ (~o.out \/ o.kind = "drone")
PutObj(os, u, o) ==
    IF Retired(o) THEN [w \in DOMAIN os \ {u} |-> os[w]]
    ELSE [w \in DOMAIN os \cup {u} |-> IF w = u THEN o ELSE os[w]]
UpdObj(os, u, f(_)) == IF u \in DOMAIN os THEN PutObj(os, u, f(os[u])) ELSE os

\* key is the table key the object's onended handler deletes (buffer sources only)
\* vib: lfoGainPitch is connected to the detune input of the object's
\* generators; only noteOnSynth and startTestTone make that connection
NewObj(kind, key, filt) ==
    [kind |-> kind, key |-> key, running |-> TRUE, stopIn |-> -1,
     gen |-> TRUE, out |-> TRUE, since |-> -1, rel |-> -1, quick |-> FALSE, filt |-> filt,
     vib |-> (kind \in {"synth", "drone"})]

\* x > 0 and x === 0; both are false of NaN
Positive(x) == ~x.nan /\ x.v > 0
IsZero(x) == ~x.nan /\ x.v = 0

\* ---- ensureContext ----
\* creates the context and the node graph once; the voice mixer starts at
\* 1 - tremoloDepth * 0.5 and the tremolo tap at tremoloDepth * 0.5
ensureContext(S) ==
    IF S.ctx THEN S
    ELSE [S EXCEPT !.ctx = TRUE,
                   !.mixer = [made |-> TRUE,
                              gain |-> OneMinus(Half(S.params.tremoloDepth)),
                              amp |-> Half(S.params.tremoloDepth),
                              \* the noise branch: the source is started when the
                              \* stored level is above 0
                              noiseGain |-> S.params.noiseLevel,
                              noiseSrc |-> Positive(S.params.noiseLevel),
                              noiseOn |-> IF Positive(S.params.noiseLevel) THEN 1 ELSE 0]]

\* ---- envelope ramps ----
\* the nodes that are not voice objects: the shared filter and the voice mixer
SharedFilter == 0
VoiceMixer == -1
\* a time in milliseconds as a number of seconds
Millis(ms) == Num(ms * (Unit \div 1000))
\* Math.max(0.001, t): the length of a ramp whose envelope time is t
rampTime_noFloor(t) == t
rampTime(t) == MathMax(Millis(MinRamp), t)
\* cancelScheduledValues(now); setValueAtTime(from, now); a ramp to the peak
\* over the attack and a ramp to the sustain level over the decay
rampsOn(on, param, from, attack, decay) ==
    <<[by |-> "trigger", on |-> on, param |-> param, from |-> from, dur |-> rampTime(attack)],
      [by |-> "trigger", on |-> on, param |-> param, from |-> "previous",
       dur |-> rampTime(decay)]>>
\* cancelScheduledValues(now); current = param.value; setValueAtTime(current, now);
\* a ramp to the resting value over the release
rampOff(on, param, rel) ==
    <<[by |-> "release", on |-> on, param |-> param, from |-> "current", dur |-> rampTime(rel)]>>

\* ---- filter envelopes ----
\* triggerFilterEnvOn: schedules the attack on a voice's own filter when amountHz > 0
triggerFilterEnvOn(S, u) ==
    IF S.fenvAmount <= 0 THEN S
    ELSE [S EXCEPT !.objs = UpdObj(S.objs, u, LAMBDA o : [o EXCEPT !.filt = "env"]),
                   !.ramps = @ \o rampsOn(u, "frequency", "base", S.params.fenvAttack,
                                          S.params.fenvDecay)]
\* releaseFilterEnvOn: ramps a voice's own filter back to its base
releaseFilterEnvOn(S, u) ==
    [S EXCEPT !.objs = UpdObj(S.objs, u, LAMBDA o : [o EXCEPT !.filt = "release"]),
              !.ramps = @ \o rampOff(u, "frequency", S.params.fenvRelease)]
\* triggerFilterEnvForNote: the drone drives the shared filter
triggerFilterEnvForNote(S) ==
    IF S.fenvAmount <= 0 THEN S
    ELSE [S EXCEPT !.filterEnv = "env",
                   !.ramps = @ \o rampsOn(SharedFilter, "frequency", "base",
                                          S.params.fenvAttack, S.params.fenvDecay)]
\* releaseFilterEnv: ramps the shared filter back to filterCutoff
releaseFilterEnv(S) ==
    [S EXCEPT !.filterEnv = "release",
              !.ramps = @ \o rampOff(SharedFilter, "frequency", S.params.fenvRelease)]

\* ---- noteOff ----
\* the release of one voice: ramp its gain to 0 from now and schedule the stop
\* of its generators
releaseObj(o, now, release0, startedAt) ==
    [o EXCEPT !.since = 0, !.rel = release0, !.quick = (startedAt = now),
              !.stopIn = Max(MinRamp, release0) + StopPad]

\* the delay of the timer that disconnects a released voice's nodes
disconnectDelay_twice(release0) == 2 * Max(MinRamp, release0) + 2 * DisconnectPad
disconnectDelay(release0) == Max(MinRamp, release0) + DisconnectPad

\* noteOff, once the voice has been found
releaseVoice(S, key) ==
    LET voice == Get(S.voices, key)
        now == S.clock
        S1 == IF voice.kind \in {"synth", "sample"}
              THEN [S EXCEPT
                      !.objs = UpdObj(S.objs, voice.uid, LAMBDA o : releaseObj(o, now, S.release, voice.startedAt)),
                      !.ramps = @ \o rampOff(voice.uid, "gain", Millis(S.release)),
                      !.voices = MapDelete(S.voices, key),
                      !.timers = S.timers \cup
                          {[in |-> disconnectDelay(S.release), uid |-> voice.uid,
                            drone |-> FALSE]}]
              ELSE \* drum voices are stopped at once
                   [S EXCEPT
                      !.voices = MapDelete(S.voices, key),
                      !.objs = UpdObj(S.objs, voice.uid, LAMBDA o : [o EXCEPT !.stopIn = 0]),
                      !.timers = S.timers \cup
                          {[in |-> DrumDisconnect, uid |-> voice.uid, drone |-> FALSE]}]
    IN IF voice.filter THEN releaseFilterEnvOn(S1, voice.uid) ELSE releaseFilterEnv(S1)

noteOff_noGuard(S, key) ==
    IF ~S.ctx THEN S
    ELSE IF ~HasKey(S.voices, key) THEN releaseFilterEnv(S)
    ELSE releaseVoice(S, key)

noteOff(S, key) ==
    IF ~S.ctx THEN S
    ELSE IF ~HasKey(S.voices, key) THEN S
    ELSE releaseVoice(S, key)

\* ---- enforceVoiceLimit ----
\* the first entry, in iteration order, with the least startedAt among cand
Newest(vs, cand) ==
    CHOOSE i \in cand :
        \A j \in cand : vs[i].startedAt > vs[j].startedAt
                        \/ (vs[i].startedAt = vs[j].startedAt /\ i >= j)
Oldest(vs, cand) ==
    CHOOSE i \in cand :
        \A j \in cand : vs[i].startedAt < vs[j].startedAt
                        \/ (vs[i].startedAt = vs[j].startedAt /\ i <= j)

stealFrom(S, cand) ==
    IF cand = {} THEN S
    ELSE LET victim == S.voices[Oldest(S.voices, cand)]
         IN [noteOff(S, victim.key) EXCEPT !.stolen = victim.uid]

enforceVoiceLimit_anyVoice(S) ==
    IF Len(S.voices) < S.maxVoices THEN S
    ELSE stealFrom(S, 1..Len(S.voices))

enforceVoiceLimit(S) ==
    IF Len(S.voices) < S.maxVoices THEN S
    ELSE stealFrom(S, {i \in 1..Len(S.voices) : S.voices[i].key # DroneKey})

\* ---- noteOnSynth / noteOnSample / noteOnDrum ----
noteOnSynth(S, id) ==
    LET u == FreeUid(S)
        S1 == [S EXCEPT
                 !.objs = PutObj(S.objs, u, NewObj("synth", DroneKey, "base")),
                 !.ramps = @ \o rampsOn(u, "gain", "zero", S.params.adsrAttack,
                                        S.params.adsrDecay),
                 !.voices = MapSet(S.voices, [key |-> IdKey(id), kind |-> "synth", uid |-> u,
                                              startedAt |-> S.clock, filter |-> TRUE]),
                 !.res = "created", !.made = u]
    IN triggerFilterEnvOn(S1, u)

noteOnSample(S, id) ==
    IF S.currentInstrument \notin S.sampleCache
    THEN \* loadSample(def.src).then(retry): no buffer, nothing is created now
         [S EXCEPT !.res = "nobuffer"]
    ELSE
      LET u == FreeUid(S)
          S1 == [S EXCEPT
                   !.objs = PutObj(S.objs, u, NewObj("sample", IdKey(id), "base")),
                   \* the gain of a sample voice rises over a fixed 10 ms
                   !.ramps = Append(@, [by |-> "trigger", on |-> u, param |-> "gain",
                                        from |-> "zero", dur |-> Millis(SampleAttack)]),
                   !.voices = MapSet(S.voices, [key |-> IdKey(id), kind |-> "sample", uid |-> u,
                                                startedAt |-> S.clock, filter |-> TRUE]),
                   !.res = "created", !.made = u]
      IN triggerFilterEnvOn(S1, u)

noteOnDrum_idKey(S, id) ==
    IF S.currentInstrument \notin S.sampleCache
    THEN [S EXCEPT !.res = "nobuffer"]
    ELSE
      LET u == FreeUid(S)
      IN [S EXCEPT
            !.objs = PutObj(S.objs, u, NewObj("drum", IdKey(id), "none")),
            !.voices = MapSet(S.voices, [key |-> IdKey(id), kind |-> "drum", uid |-> u,
                                         startedAt |-> S.clock, filter |-> FALSE]),
            !.res = "created", !.made = u]

noteOnDrum(S, id) ==
    IF S.currentInstrument \notin S.sampleCache
    THEN [S EXCEPT !.res = "nobuffer"]
    ELSE
      LET u == FreeUid(S)
          voiceKey == DrumKey(id, S.clock)
      IN [S EXCEPT
            !.objs = PutObj(S.objs, u, NewObj("drum", voiceKey, "none")),
            !.voices = MapSet(S.voices, [key |-> voiceKey, kind |-> "drum", uid |-> u,
                                         startedAt |-> S.clock, filter |-> FALSE]),
            !.res = "created", !.made = u]

\* ---- noteOn ----
\* the instrument definition noteOn plays: an unknown id falls back to the synth
playKind(S) ==
    IF defKind(S.currentInstrument) = "none" THEN "engine" ELSE defKind(S.currentInstrument)

startVoice(S, id) ==
    LET kind == playKind(S)
        S1 == IF kind = "drumkit" THEN S ELSE enforceVoiceLimit(S)
    IN CASE kind = "engine" -> noteOnSynth(S1, id)
         [] kind = "sample" -> noteOnSample(S1, id)
         [] OTHER -> noteOnDrum(S1, id)

deferNoteOn_drop(S, id) == [S EXCEPT !.res = "dropped"]

deferNoteOn(S, id) ==
    IF S.loads[S.instrumentReady].status = "pending"
    THEN [S EXCEPT !.deferred = Append(S.deferred, [p |-> S.instrumentReady, id |-> id]),
                   !.res = "deferred"]
    ELSE \* then() on a rejected promise never runs the callback
         [S EXCEPT !.res = "dropped"]

noteOn_retrigger(S0, id) ==
    LET S == [ensureContext(S0) EXCEPT !.res = "none", !.stolen = 0, !.made = 0] IN
    IF S.instrumentReady # 0 THEN deferNoteOn(S, id) ELSE startVoice(S, id)

noteOn(S0, id) ==
    LET S == [ensureContext(S0) EXCEPT !.res = "none", !.stolen = 0, !.made = 0] IN
    IF S.instrumentReady # 0 THEN deferNoteOn(S, id)
    ELSE IF playKind(S) # "drumkit" /\ HasKey(S.voices, IdKey(id))
         THEN [S EXCEPT !.res = "ignored"]
         ELSE startVoice(S, id)

\* ---- startTestTone / stopTestTone / allNotesOff ----
startTestTone(S0) ==
    LET S == ensureContext(S0) IN
    IF S.osc # 0 THEN S
    ELSE LET u == FreeUid(S)
             S1 == [S EXCEPT
                      !.osc = u,
                      !.objs = PutObj(S.objs, u, NewObj("drone", DroneKey, "none")),
                      !.ramps = @ \o rampsOn(u, "gain", "zero", S.params.adsrAttack,
                                             S.params.adsrDecay),
                      !.voices = MapSet(S.voices, [key |-> DroneKey, kind |-> "synth", uid |-> u,
                                                   startedAt |-> S.clock, filter |-> FALSE]),
                      !.res = "created", !.made = u]
         IN triggerFilterEnvForNote(S1)

stopTestTone(S) ==
    IF S.osc = 0 \/ ~S.ctx THEN S
    ELSE
      LET oscToStop == S.osc
          \* the gain that is ramped: the drone voice's, else the voice mixer's
          S1 == IF HasKey(S.voices, DroneKey)
                THEN [S EXCEPT !.objs = UpdObj(S.objs, Get(S.voices, DroneKey).uid,
                                   LAMBDA o : [o EXCEPT !.since = 0, !.rel = S.release]),
                               !.ramps = @ \o rampOff(Get(S.voices, DroneKey).uid, "gain",
                                                      Millis(S.release))]
                ELSE [S EXCEPT !.mixRamp = TRUE,
                               !.ramps = @ \o rampOff(VoiceMixer, "gain", Millis(S.release))]
          S2 == [S1 EXCEPT
                   !.osc = 0,
                   !.objs = UpdObj(S1.objs, oscToStop,
                       LAMBDA o : [o EXCEPT !.stopIn = Max(MinRamp, S.release) + StopPad]),
                   !.timers = S1.timers \cup
                       {[in |-> disconnectDelay(S.release), uid |-> oscToStop,
                         drone |-> TRUE]}]
      IN releaseFilterEnv(S2)

RECURSIVE noteOffAll(_, _)
noteOffAll(S, ks) ==
    IF ks = <<>> THEN S ELSE noteOffAll(noteOff(S, Head(ks)), Tail(ks))

allNotesOff_voicesOnly(S) ==
    IF ~S.ctx THEN S
    ELSE releaseFilterEnv(noteOffAll(S, [i \in 1..Len(S.voices) |-> S.voices[i].key]))

allNotesOff(S) ==
    IF ~S.ctx THEN S
    ELSE LET S1 == noteOffAll(S, [i \in 1..Len(S.voices) |-> S.voices[i].key])
             S2 == IF S1.osc # 0 THEN stopTestTone(S1) ELSE S1
         IN releaseFilterEnv(S2)

\* ---- setInstrument / loadInstrument ----
FreeLoad(S) ==
    CHOOSE p \in 1..(MaxLoads + 1) :
        p \notin DOMAIN S.loads /\ \A q \in 1..(p - 1) : q \in DOMAIN S.loads

\* a rejected promise nothing refers to any more is dropped from the model
Unreferenced(S) ==
    {p \in DOMAIN S.loads : S.loads[p].status = "rejected" /\ S.instrumentReady # p}
collect(S) ==
    [S EXCEPT !.loads = [p \in DOMAIN S.loads \ Unreferenced(S) |-> S.loads[p]]]

setInstrument(S0, inst) ==
    LET S1 == allNotesOff([S0 EXCEPT !.currentInstrument = inst])
        kind == defKind(inst)
    IN IF kind = "none" THEN S1
       ELSE IF kind = "engine" THEN [S1 EXCEPT !.instrumentReady = 0]
       ELSE \* loadInstrument: the context is created, the load starts
            LET S2 == ensureContext(S1)
                p == FreeLoad(S2)
            IN [S2 EXCEPT
                  !.loads = [q \in DOMAIN S2.loads \cup {p} |->
                               IF q = p THEN [inst |-> inst, status |-> "pending",
                                              fetch |-> inst \notin S2.sampleCache]
                               ELSE S2.loads[q]],
                  !.instrumentReady = p]

\* the reactions of a fulfilled load promise, in registration order: every
\* deferred note-on calls noteOn again
RECURSIVE retryAll(_, _)
retryAll(S, es) ==
    IF es = <<>> THEN S
    ELSE LET S1 == noteOn(S, Head(es).id)
         IN retryAll([S1 EXCEPT !.log = Append(S.log, [id |-> Head(es).id, res |-> S1.res,
                                                       made |-> S1.made,
                                                       stolen |-> S1.stolen])],
                     Tail(es))

loadSettled_resetsSelection(S, p, ok) ==
    LET mine == SelectSeq(S.deferred, LAMBDA e : e.p = p)
        others == SelectSeq(S.deferred, LAMBDA e : e.p # p)
    IN IF ~ok
       THEN [S EXCEPT !.loads[p].status = "rejected", !.deferred = others,
                      !.currentInstrument = "synth"]
       ELSE LET S1 == [S EXCEPT
                         !.sampleCache = S.sampleCache \cup {S.loads[p].inst},
                         !.loads = [q \in DOMAIN S.loads \ {p} |-> S.loads[q]],
                         !.instrumentReady = IF S.instrumentReady = p THEN 0
                                             ELSE S.instrumentReady,
                         !.deferred = others]
            IN retryAll(S1, mine)

loadSettled_clearsAny(S, p, ok) ==
    LET mine == SelectSeq(S.deferred, LAMBDA e : e.p = p)
        others == SelectSeq(S.deferred, LAMBDA e : e.p # p)
    IN IF ~ok
       THEN [S EXCEPT !.loads[p].status = "rejected", !.deferred = others]
       ELSE LET S1 == [S EXCEPT
                         !.sampleCache = S.sampleCache \cup {S.loads[p].inst},
                         !.loads = [q \in DOMAIN S.loads \ {p} |-> S.loads[q]],
                         !.instrumentReady = 0,
                         !.deferred = others]
            IN retryAll(S1, mine)

\* the load promise p settles
loadSettled(S, p, ok) ==
    LET mine == SelectSeq(S.deferred, LAMBDA e : e.p = p)
        others == SelectSeq(S.deferred, LAMBDA e : e.p # p)
    IN IF ~ok
       THEN \* setInstrument throws at its await: instrumentReady keeps the rejected promise
            [S EXCEPT !.loads[p].status = "rejected", !.deferred = others]
       ELSE LET S1 == [S EXCEPT
                         !.sampleCache = S.sampleCache \cup {S.loads[p].inst},
                         !.loads = [q \in DOMAIN S.loads \ {p} |-> S.loads[q]],
                         !.instrumentReady = IF S.instrumentReady = p THEN 0
                                             ELSE S.instrumentReady,
                         !.deferred = others]
            IN retryAll(S1, mine)

\* ---- end of playback, timers ----
\* a generator stops: an oscillator at its scheduled stop, a buffer source also
\* when its buffer has played to the end; buffer sources then run onended
sourceEnded_anyVoice(S, u) ==
    LET o == S.objs[u] IN
    IF o.kind = "sample"
    THEN [S EXCEPT
            !.voices = MapDelete(S.voices, o.key),
            !.objs = PutObj(S.objs, u, [o EXCEPT !.running = FALSE, !.stopIn = -1,
                                                 !.gen = FALSE, !.out = FALSE,
                                                 !.filt = "release"]),
            !.ramps = @ \o rampOff(u, "frequency", S.params.fenvRelease)]
    ELSE IF o.kind = "drum"
    THEN [S EXCEPT
            !.voices = MapDelete(S.voices, o.key),
            !.objs = PutObj(S.objs, u, [o EXCEPT !.running = FALSE, !.stopIn = -1,
                                                 !.gen = FALSE, !.out = FALSE])]
    ELSE [S EXCEPT !.objs = PutObj(S.objs, u, [o EXCEPT !.running = FALSE, !.stopIn = -1])]

sourceEnded(S, u) ==
    LET o == S.objs[u] IN
    IF o.kind = "sample"
    THEN [S EXCEPT
            \* existing === voice: the entry is deleted only if it still is this voice
            !.voices = SelectSeq(S.voices, LAMBDA v : ~(v.key = o.key /\ v.uid = u)),
            !.objs = PutObj(S.objs, u, [o EXCEPT !.running = FALSE, !.stopIn = -1,
                                                 !.gen = FALSE, !.out = FALSE,
                                                 !.filt = "release"]),
            \* onended calls releaseFilterEnvOn on the voice's filter
            !.ramps = @ \o rampOff(u, "frequency", S.params.fenvRelease)]
    ELSE IF o.kind = "drum"
    THEN [S EXCEPT
            !.voices = MapDelete(S.voices, o.key),
            !.objs = PutObj(S.objs, u, [o EXCEPT !.running = FALSE, !.stopIn = -1,
                                                 !.gen = FALSE, !.out = FALSE])]
    ELSE [S EXCEPT !.objs = PutObj(S.objs, u, [o EXCEPT !.running = FALSE, !.stopIn = -1])]

timerFired(S, t) ==
    IF t.drone
    THEN \* stopTestTone's timer: disconnect the oscillator, delete the "drone" entry
         [S EXCEPT
            !.timers = S.timers \ {t},
            !.objs = UpdObj(S.objs, t.uid, LAMBDA o : [o EXCEPT !.gen = FALSE]),
            !.voices = MapDelete(S.voices, DroneKey)]
    ELSE \* noteOff's timer: disconnect the voice's nodes
         [S EXCEPT
            !.timers = S.timers \ {t},
            !.objs = UpdObj(S.objs, t.uid, LAMBDA o : [o EXCEPT !.gen = FALSE, !.out = FALSE])]

\* ---- setters ----
setMaxVoices(S, n) == [S EXCEPT !.maxVoices = Max(1, n)]
setADSR(S, r) == [S EXCEPT !.release = Max(0, r)]

\* ---- the history variables ----
NoOp ==
    [op |-> "init", id |-> 0, res |-> "none", stolen |-> 0, made |-> 0, pre |-> 0,
     preOsc |-> 0, log |-> <<>>, kind |-> "none", quick |-> FALSE, since |-> -1, rel |-> -1,
     fmt |-> "none", sup |-> "none", blob |-> [type |-> "none", chunks |-> <<>>],
     ramps |-> <<>>, offs |-> {}, key |-> DroneKey]

\* the ids whose note-off came while their note-on was waiting on a load, for
\* as long as that note-on is still waiting
StillOff(S) ==
    {i \in lastOp.offs : \E k \in 1..Len(S.deferred) : S.deferred[k].id = i}
\* what a call did: its outcome, and the size of the voice table and the drone
\* oscillator it found
Did(op, id, S) ==
    [NoOp EXCEPT !.op = op, !.id = id, !.res = S.res, !.stolen = S.stolen, !.made = S.made,
                 !.pre = Len(voices), !.preOsc = osc, !.log = S.log, !.ramps = S.ramps,
                 !.offs = StillOff(S)]

\* what happened to the audio object u in an event
DidTo(op, u, S) ==
    [NoOp EXCEPT !.op = op, !.id = u,
                 !.res = IF u \in DOMAIN objs /\ u \notin DOMAIN S.objs THEN "retired" ELSE "none",
                 !.pre = Len(voices), !.preOsc = osc,
                 !.quick = IF u \in DOMAIN objs THEN objs[u].quick ELSE FALSE,
                 !.kind = IF u \in DOMAIN objs THEN objs[u].kind ELSE "none",
                 !.since = IF u \in DOMAIN objs THEN objs[u].since ELSE -1,
                 !.rel = IF u \in DOMAIN objs THEN objs[u].rel ELSE -1,
                 !.ramps = S.ramps, !.offs = StillOff(S),
                 !.key = IF u \in DOMAIN objs THEN objs[u].key ELSE DroneKey]

\* a burst survives the steps that leave the voice table and the configuration alone
KeepBurst(S) ==
    IF S.voices = voices /\ S.maxVoices = maxVoices /\ S.currentInstrument = currentInstrument
       /\ S.instrumentReady = instrumentReady
    THEN burst ELSE <<>>

\* a note-on that created a voice starts a burst on an empty table and extends
\* the current one with a new id
NextBurst(S, id) ==
    IF S.res # "created" \/ playKind(S) = "drumkit" THEN <<>>
    ELSE IF voices = <<>> THEN <<id>>
    ELSE IF burst # <<>> /\ Len(burst) <= MaxVoicesInput
            /\ \A i \in 1..Len(burst) : burst[i] # id
         THEN Append(burst, id)
         ELSE <<>>

\* ---- the bounds on what a step may allocate ----
Fits(S) ==
    /\ DOMAIN S.objs \subseteq 1..MaxObjs
    /\ DOMAIN S.loads \subseteq 1..MaxLoads
    /\ Len(S.deferred) <= MaxDeferred

\* ---- the user-interface components after their first render ----
\* Keyboard: pressed.current is empty; out is the history of the onNoteOn and
\* onNoteOff calls made so far
NoKeys == [pressed |-> {}, out |-> <<>>]
\* DAW: the transport state, stepRef, intervalRef (0 for null), the step
\* timers that are active, and the handlePlay calls waiting at their await
Stopped ==
    [isPlaying |-> FALSE, isPaused |-> FALSE, currentStep |-> -1, stepRef |-> 0,
     intervalRef |-> 0, timers |-> {}, resuming |-> <<>>, pausedAt |-> -1]
\* useWebAudioFont: every ref is empty, no script element is in the document
NoFont ==
    [mounted |-> FALSE,
     scripts |-> [u \in ScriptUrls |-> 0],
     scriptPromises |-> [u \in ScriptUrls |-> "none"],
     ready |-> [u \in ScriptUrls |-> FALSE],
     contexts |-> 0, audioContextRef |-> "none",
     players |-> 0, playerRef |-> FALSE,
     decodes |-> 0, instrumentLoadRequestedRef |-> FALSE,
     playing |-> <<>>]

\* ---- initial state: the engine after construction ----
\* the field initialisers of the parameters, in units of 1/Unit
DefaultParams ==
    [currentFreq |-> Num(220 * Unit), currentMaster |-> Num(Unit \div 2),
     filterCutoff |-> Num(1200 * Unit), filterQ |-> Num((8 * Unit) \div 10),
     distAmount |-> Num(0),
     adsrAttack |-> Num(Unit \div 100), adsrDecay |-> Num(Unit \div 10),
     adsrSustain |-> Num((8 * Unit) \div 10),
     fenvAttack |-> Num(Unit \div 200), fenvDecay |-> Num(Unit \div 5),
     fenvSustain |-> Num(0), fenvRelease |-> Num(Unit \div 5),
     ampVelSense |-> Num(Unit), filtVelSense |-> Num(Unit \div 2), filtKeytrack |-> Num(0),
     unisonCount |-> Num(Unit), unisonDetune |-> Num(0), stereoSpread |-> Num(0),
     lfoRate |-> Num(5 * Unit), vibratoCents |-> Num(0), filterLfoCents |-> Num(0),
     tremoloDepth |-> Num(0), noiseLevel |-> Num(0),
     delayTime |-> Num(Unit \div 4), delayFeedbackAmt |-> Num(Unit \div 4),
     delayMix |-> Num(0), reverbMix |-> Num(0), reverbSize |-> Num(2 * Unit)]

\* no capture has been started
NoRecorder ==
    [mode |-> "none", cap |-> 0, fallback |-> FALSE, wavChunks |-> <<>>,
     workletLoaded |-> FALSE, recorderNode |-> 0, connected |-> {}, enabled |-> {},
     made |-> 0, pending |-> 0, inflight |-> <<>>, block |-> 0,
     mediaChunks |-> <<>>, mediaRecorder |-> 0, stopping |-> <<>>, recorders |-> 0]

\* no spectrum has been built
NoSpectrum ==
    [place |-> "none", M |-> 0, zeroSum |-> TRUE, fh |-> 0, sr |-> 0,
     harmonics |-> 0, dc |-> "finite"]

\* nothing has been encoded
NoWav ==
    [M |-> 0, R |-> 0, bytes |-> 0, riffSize |-> 0, fmtSize |-> 0, format |-> 0,
     channels |-> 0, rate |-> 0, byteRate |-> 0, blockAlign |-> 0, bits |-> 0,
     dataSize |-> 0, input |-> <<>>, data |-> <<>>]

\* no offline render has been started
NoRender == [running |-> <<>>, done |-> <<>>]

EngineInit ==
    /\ ctx = FALSE
    /\ clock = 0
    /\ voices = <<>>
    /\ objs = [u \in {} |-> NoOp]
    /\ timers = {}
    /\ osc = 0
    /\ maxVoices = DefaultMaxVoices
    /\ release = DefaultRelease
    /\ fenvAmount = 0
    /\ currentInstrument = "synth"
    /\ instrumentReady = 0
    /\ loads = [p \in {} |-> NoOp]
    /\ deferred = <<>>
    /\ sampleCache = {}
    /\ filterEnv = "rest"
    /\ mixRamp = FALSE
    /\ mixer = [made |-> FALSE, gain |-> Num(0), amp |-> Num(0),
                noiseGain |-> Num(0), noiseSrc |-> FALSE, noiseOn |-> 0]
    /\ params = DefaultParams
    /\ rec = NoRecorder
    /\ wav = NoWav
    /\ off = NoRender
    /\ defs = BASE_INSTRUMENT_LIBRARY
    /\ decoding = <<>>
    /\ kb = NoKeys
    /\ seq = Stopped
    /\ font = NoFont
    /\ calls = 0
    /\ lastOp = NoOp
    /\ burst = <<>>

Init ==
    /\ EngineInit
    /\ sp = NoSpectrum

\* ---- calls of the public API ----
Call ==
    /\ calls < MaxCalls
    /\ calls' = calls + 1

NoteOn(id) ==
    LET S == noteOn(Eng, id) IN
    /\ Call
    /\ Fits(S)
    /\ Commit(S)
    /\ lastOp' = [Did("noteOn", id, S) EXCEPT !.offs = @ \ {id}]
    /\ burst' = NextBurst(S, id)

NoteOff(id) ==
    LET S == noteOff(Eng, IdKey(id)) IN
    /\ Call
    /\ Commit(S)
    /\ lastOp' = [Did("noteOff", id, S) EXCEPT
                    !.res = IF HasKey(voices, IdKey(id)) THEN "released" ELSE "noop",
                    !.offs = IF \E k \in 1..Len(deferred) : deferred[k].id = id
                             THEN @ \cup {id} ELSE @]
    /\ burst' = KeepBurst(S)

AllNotesOff ==
    LET S == allNotesOff(Eng) IN
    /\ Call
    /\ Commit(S)
    /\ lastOp' = Did("allNotesOff", 0, S)
    /\ burst' = KeepBurst(S)

StartTestTone ==
    LET S == startTestTone(Eng) IN
    /\ Call
    /\ Fits(S)
    /\ Commit(S)
    /\ lastOp' = Did("startTestTone", 0, S)
    /\ burst' = KeepBurst(S)

StopTestTone ==
    LET S == stopTestTone(Eng) IN
    /\ Call
    /\ Commit(S)
    /\ lastOp' = Did("stopTestTone", 0, S)
    /\ burst' = KeepBurst(S)

SetMaxVoices(n) ==
    LET S == setMaxVoices(Eng, n) IN
    /\ Call
    /\ Commit(S)
    /\ lastOp' = Did("setMaxVoices", n, S)
    /\ burst' = KeepBurst(S)

SetADSR(r) ==
    LET S == setADSR(Eng, r) IN
    /\ Call
    /\ Commit(S)
    /\ lastOp' = Did("setADSR", 0, S)
    /\ burst' = KeepBurst(S)

SetInstrument(inst) ==
    LET S == collect(setInstrument(Eng, inst)) IN
    /\ Call
    /\ Fits(S)
    /\ Commit(S)
    /\ lastOp' = Did("setInstrument", 0, S)
    /\ burst' = <<>>

\* ---- events ----
\* the load promise p is fulfilled (ok) or rejected; a load that found its
\* samples in the cache does not fetch and cannot fail
LoadSettled(p, ok) ==
    /\ p \in DOMAIN loads
    /\ loads[p].status = "pending"
    /\ ok \/ loads[p].fetch
    /\ calls' = calls
    /\ LET S == collect(loadSettled(Eng, p, ok)) IN
       /\ Fits(S)
       /\ Commit(S)
       /\ lastOp' = [Did("loadSettled", p, S) EXCEPT
                       !.res = IF ~ok THEN "rejected"
                               ELSE IF instrumentReady = p THEN "readyCleared" ELSE "stale"]
       /\ burst' = <<>>

SourceEnded(u) ==
    /\ u \in DOMAIN objs
    /\ objs[u].running
    /\ \/ objs[u].kind \in {"sample", "drum"}
       \/ objs[u].stopIn = 0
    /\ calls' = calls
    /\ LET S == sourceEnded(Eng, u) IN
       /\ Commit(S)
       /\ lastOp' = DidTo("ended", u, S)
       /\ burst' = KeepBurst(S)

TimerFired(t) ==
    /\ t \in timers
    /\ t.in = 0
    /\ calls' = calls
    /\ LET S == timerFired(Eng, t) IN
       /\ Commit(S)
       /\ lastOp' = DidTo("timer", t.uid, S)
       /\ burst' = KeepBurst(S)

\* the milliseconds that remain until each scheduled stop and timer
Deadlines ==
    {t.in : t \in timers}
    \cup {objs[u].stopIn : u \in {w \in DOMAIN objs : objs[w].running /\ objs[w].stopIn # -1}}

\* the time stamps the state still holds
Stamps ==
    {voices[i].startedAt : i \in 1..Len(voices)}
    \cup {objs[u].key.at : u \in {w \in DOMAIN objs : objs[w].kind = "drum"}}

\* d milliseconds pass
elapse(o, d) ==
    [o EXCEPT !.stopIn = IF o.running /\ o.stopIn # -1 THEN o.stopIn - d ELSE o.stopIn,
              !.since = IF o.since # -1 THEN o.since + d ELSE o.since]

\* time passes up to the next deadline, or by TickStep when nothing is scheduled
Tick ==
    /\ \A d \in Deadlines : d > 0
    /\ LET d == IF Deadlines = {} THEN TickStep
                ELSE CHOOSE e \in Deadlines : \A f \in Deadlines : e <= f
       IN /\ objs' = [u \in DOMAIN objs |-> elapse(objs[u], d)]
          /\ timers' = {[t EXCEPT !.in = t.in - d] : t \in timers}
    /\ clock' = IF Stamps = {} THEN 0
                ELSE 1 + (CHOOSE m \in Stamps : \A n \in Stamps : m >= n)
    /\ lastOp' = [NoOp EXCEPT !.op = "tick", !.offs = lastOp.offs]
    /\ burst' = burst
    /\ calls' = calls
    /\ UNCHANGED <<ctx, voices, osc, maxVoices, release, fenvAmount,
                   currentInstrument, instrumentReady, loads, deferred, sampleCache,
                   filterEnv, mixRamp, mixer, params, rec, sp, wav, off, defs, decoding,
                   uiVars>>

Next ==
    \/ \E id \in Ids : NoteOn(id)
    \/ \E id \in Ids : NoteOff(id)
    \/ AllNotesOff
    \/ StartTestTone
    \/ StopTestTone
    \/ \E n \in 0..MaxVoicesInput : SetMaxVoices(n)
    \/ \E r \in ReleaseInputs : SetADSR(r)
    \/ \E inst \in InstrumentIds : SetInstrument(inst)
    \/ \E p \in 1..MaxLoads, ok \in BOOLEAN : LoadSettled(p, ok)
    \/ \E u \in 1..MaxObjs : SourceEnded(u)
    \/ \E t \in timers : TimerFired(t)
    \/ Tick

Spec == Init /\ [][Next]_vars

\* ---- the parameter setters ----
\* Math.max(lo, Math.min(hi, x))
Clamp(lo, hi, x) == MathMax(Num(lo), MathMin(Num(hi), x))

setFrequency(S, freq) == [S EXCEPT !.params.currentFreq = freq]
setMasterGain(S, gain) == [S EXCEPT !.params.currentMaster = Clamp(0, Unit, gain)]
setFilterCutoff(S, hz) == [S EXCEPT !.params.filterCutoff = Clamp(20 * Unit, 20000 * Unit, hz)]
setFilterQ(S, q) == [S EXCEPT !.params.filterQ = Clamp(1, 40 * Unit, q)]
setDistortion(S, a) == [S EXCEPT !.params.distAmount = Clamp(0, Unit, a)]
\* setADSR with its four arguments; release is kept in milliseconds
setADSR4(S, attack, decay, sustain, r) ==
    [setADSR(S, r) EXCEPT !.params.adsrAttack = MathMax(Num(0), attack),
                          !.params.adsrDecay = MathMax(Num(0), decay),
                          !.params.adsrSustain = Clamp(0, Unit, sustain)]
setFilterEnv(S, attack, decay, sustain, rel, amountHz) ==
    [S EXCEPT !.params.fenvAttack = MathMax(Num(0), attack),
              !.params.fenvDecay = MathMax(Num(0), decay),
              !.params.fenvSustain = Clamp(0, Unit, sustain),
              !.params.fenvRelease = MathMax(Num(0), rel),
              !.fenvAmount = Max(0, amountHz)]
setAmpVelocitySensitivity(S, a) == [S EXCEPT !.params.ampVelSense = Clamp(0, Unit, a)]
setFilterVelocitySensitivity(S, a) == [S EXCEPT !.params.filtVelSense = Clamp(0, Unit, a)]
setUnisonCount(S, n) == [S EXCEPT !.params.unisonCount = Clamp(Unit, 7 * Unit, MathFloor(n))]
setUnisonDetune(S, c) == [S EXCEPT !.params.unisonDetune = Clamp(0, 100 * Unit, c)]
setStereoSpread(S, a) == [S EXCEPT !.params.stereoSpread = Clamp(0, Unit, a)]
setFilterKeytrack(S, a) == [S EXCEPT !.params.filtKeytrack = Clamp(0, Unit, a)]
setLfoRate(S, hz) == [S EXCEPT !.params.lfoRate = Clamp(Unit \div 10, 30 * Unit, hz)]
\* setVibratoCents reconnects the pitch tap to the oscillators of the table
\* entries of kind "synth" and to the drone oscillator
setVibratoCents(S, cents) ==
    LET touched == {S.voices[i].uid : i \in {j \in 1..Len(S.voices) : S.voices[j].kind = "synth"}}
                     \cup (IF S.osc # 0 THEN {S.osc} ELSE {})
    IN [S EXCEPT !.params.vibratoCents = Clamp(0, 200 * Unit, cents),
                 !.objs = [u \in DOMAIN S.objs |->
                             IF u \in touched THEN [S.objs[u] EXCEPT !.vib = TRUE] ELSE S.objs[u]]]
setFilterLfoDepth(S, hz) == [S EXCEPT !.params.filterLfoCents = Clamp(0, 4800 * Unit, hz)]
\* setTremoloDepth writes both gains when the nodes exist; assigning NaN to
\* an AudioParam throws and leaves its value
setTremoloDepth(S, a) ==
    LET d == Clamp(0, Unit, a) IN
    [S EXCEPT !.params.tremoloDepth = d,
              !.mixer = IF S.mixer.made /\ ~d.nan
                        THEN [@ EXCEPT !.gain = OneMinus(Half(d)), !.amp = Half(d)]
                        ELSE @]
\* startNoiseSrc: stops the source it finds, then creates and starts a new one
startNoiseSrc(S) ==
    IF ~S.ctx \/ ~S.mixer.made THEN S
    ELSE [S EXCEPT !.mixer.noiseSrc = TRUE,
                   !.mixer.noiseOn = (IF S.mixer.noiseSrc THEN @ - 1 ELSE @) + 1]
\* setNoiseLevel stores the level, writes it to the noise gain when the node
\* exists (assigning NaN to an AudioParam throws: the call ends there), then
\* starts or stops the source
setNoiseLevel(S, a) ==
    LET d == Clamp(0, Unit, a)
        S1 == [S EXCEPT !.params.noiseLevel = d]
    IN IF S.mixer.made /\ d.nan THEN [S1 EXCEPT !.res = "TypeError"]
       ELSE LET S2 == IF S.mixer.made THEN [S1 EXCEPT !.mixer.noiseGain = d] ELSE S1
            IN IF ~S2.ctx THEN S2
               ELSE IF Positive(d) /\ ~S2.mixer.noiseSrc THEN startNoiseSrc(S2)
               ELSE IF IsZero(d) /\ S2.mixer.noiseSrc
                    THEN [S2 EXCEPT !.mixer.noiseSrc = FALSE, !.mixer.noiseOn = @ - 1]
               ELSE S2
setDelay(S, time, feedback, mix) ==
    [S EXCEPT !.params.delayTime = Clamp(0, 2 * Unit, time),
              !.params.delayFeedbackAmt = Clamp(0, (95 * Unit) \div 100, feedback),
              !.params.delayMix = Clamp(0, Unit, mix)]
setReverb(S, sizeSec, mix) ==
    [S EXCEPT !.params.reverbSize = Clamp(Unit \div 10, 6 * Unit, sizeSec),
              !.params.reverbMix = Clamp(0, Unit, mix)]

\* the arguments given to the setters: NaN, a negative number, a fraction, a
\* number with a fractional part, a large number
Nums == {NaN, Num(0 - Unit), Num(Unit \div 2), Num((5 * Unit) \div 2), Num(50000 * Unit)}
\* the arguments given for the envelope times and the delay and reverb mix
FewNums == {Num(0 - Unit), Num(Unit \div 2)}
AmountInputs == {-1, 800}
MaxSets == 2

Set(name, S) ==
    /\ calls < MaxSets
    /\ calls' = calls + 1
    /\ Commit(S)
    /\ lastOp' = [NoOp EXCEPT !.op = name]
    /\ UNCHANGED burst

SetFrequency(x) == Set("setFrequency", setFrequency(Eng, x))
SetMasterGain(x) == Set("setMasterGain", setMasterGain(Eng, x))
SetFilterCutoff(x) == Set("setFilterCutoff", setFilterCutoff(Eng, x))
SetFilterQ(x) == Set("setFilterQ", setFilterQ(Eng, x))
SetDistortion(x) == Set("setDistortion", setDistortion(Eng, x))
SetADSR4(a, d, s, r) == Set("setADSR", setADSR4(Eng, a, d, s, r))
SetFilterEnv(a, d, s, r, h) == Set("setFilterEnv", setFilterEnv(Eng, a, d, s, r, h))
SetAmpVelocitySensitivity(x) == Set("setAmpVelocitySensitivity", setAmpVelocitySensitivity(Eng, x))
SetFilterVelocitySensitivity(x) ==
    Set("setFilterVelocitySensitivity", setFilterVelocitySensitivity(Eng, x))
SetMaxVoicesTo(n) == Set("setMaxVoices", setMaxVoices(Eng, n))
SetUnisonCount(x) == Set("setUnisonCount", setUnisonCount(Eng, x))
SetUnisonDetune(x) == Set("setUnisonDetune", setUnisonDetune(Eng, x))
SetStereoSpread(x) == Set("setStereoSpread", setStereoSpread(Eng, x))
SetFilterKeytrack(x) == Set("setFilterKeytrack", setFilterKeytrack(Eng, x))
SetLfoRate(x) == Set("setLfoRate", setLfoRate(Eng, x))
SetVibratoCentsTo(x) == Set("setVibratoCents", setVibratoCents(Eng, x))
SetFilterLfoDepth(x) == Set("setFilterLfoDepth", setFilterLfoDepth(Eng, x))
SetTremoloDepthTo(x) == Set("setTremoloDepth", setTremoloDepth(Eng, x))
SetNoiseLevel(x) == Set("setNoiseLevel", setNoiseLevel(Eng, x))
SetDelay(t, f, m) == Set("setDelay", setDelay(Eng, t, f, m))
SetReverb(z, m) == Set("setReverb", setReverb(Eng, z, m))

ParamNext ==
    \/ \E x \in Nums : SetFrequency(x)
    \/ \E x \in Nums : SetMasterGain(x)
    \/ \E x \in Nums : SetFilterCutoff(x)
    \/ \E x \in Nums : SetFilterQ(x)
    \/ \E x \in Nums : SetDistortion(x)
    \/ \E a, d \in FewNums, x \in Nums, r \in ReleaseInputs : SetADSR4(a, d, x, r)
    \/ \E a, d, r \in FewNums, x \in Nums, h \in AmountInputs : SetFilterEnv(a, d, x, r, h)
    \/ \E x \in Nums : SetAmpVelocitySensitivity(x)
    \/ \E x \in Nums : SetFilterVelocitySensitivity(x)
    \/ \E n \in 1..MaxVoicesInput : SetMaxVoicesTo(n)
    \/ \E x \in Nums : SetUnisonCount(x)
    \/ \E x \in Nums : SetUnisonDetune(x)
    \/ \E x \in Nums : SetStereoSpread(x)
    \/ \E x \in Nums : SetFilterKeytrack(x)
    \/ \E x \in Nums : SetLfoRate(x)
    \/ \E x \in Nums : SetVibratoCentsTo(x)
    \/ \E x \in Nums : SetFilterLfoDepth(x)
    \/ \E x \in Nums : SetTremoloDepthTo(x)
    \/ \E x \in Nums : SetNoiseLevel(x)
    \/ \E t, f \in Nums, m \in FewNums : SetDelay(t, f, m)
    \/ \E z \in Nums, m \in FewNums : SetReverb(z, m)

ParamSpec == Init /\ [][ParamNext]_vars

\* ---- the voice engine with the modulation setters ----
TremoloInputs == {Num(Unit)}
VibratoInputs == {Num(50 * Unit)}

SetTremoloDepth(a) ==
    LET S == setTremoloDepth(Eng, a) IN
    /\ Call
    /\ Commit(S)
    /\ lastOp' = Did("setTremoloDepth", 0, S)
    /\ burst' = KeepBurst(S)

SetVibratoCents(c) ==
    LET S == setVibratoCents(Eng, c) IN
    /\ Call
    /\ Commit(S)
    /\ lastOp' = Did("setVibratoCents", 0, S)
    /\ burst' = KeepBurst(S)

ModNext ==
    \/ Next
    \/ \E a \in TremoloInputs : SetTremoloDepth(a)
    \/ \E c \in VibratoInputs : SetVibratoCents(c)

ModSpec == Init /\ [][ModNext]_vars

\* ---- the spectrum of the custom wave shape ----
\* A buffer is given by its length M and by whether its samples add up to 0;
\* a frequency is counted in half hertz (fh = 2 * freq), so that
\* floor(nyquist / freq) is sampleRate \div fh.  A coefficient is "finite",
\* "infinite" or "nan".
MaxHarmonics == 64
OfflineSampleRate == 44100
Min(a, b) == IF a < b THEN a ELSE b

\* 2 / M
TwoOver(M) == IF M = 0 THEN "infinite" ELSE "finite"
\* q * sum of finite samples: Infinity * 0 is NaN
TimesSum(q, zeroSum) ==
    IF q = "infinite" THEN (IF zeroSum THEN "nan" ELSE "infinite") ELSE "finite"

\* harmonics = min(maxHarmonics, floor(M / 2)); real[0] = (2 / M) * sum; the
\* coefficients 1..harmonics are computed only when M >= 2
buildPeriodicFromSamples(M, zeroSum, maxHarmonics) ==
    [harmonics |-> Min(maxHarmonics, M \div 2), dc |-> TimesSum(TwoOver(M), zeroSum)]

buildPeriodicForFreq_noCap(M, zeroSum, fh, sampleRate) ==
    buildPeriodicFromSamples(M, zeroSum, MaxHarmonics)

\* maxH = max(1, floor(nyquist / max(1, freq)))
buildPeriodicForFreq(M, zeroSum, fh, sampleRate) ==
    LET maxH == Max(1, sampleRate \div Max(2, fh)) IN
    buildPeriodicFromSamples(M, zeroSum, Min(MaxHarmonics, maxH))

Lengths == {0, 1, 2, 3, 4, 5, 64, 128, 129, 256}
HalfHertz == {1, 2, 880, 8000, 44100, 50000, 100000}
SampleRates == {8000, 44100, 48000}
LivePlaces == {"startTestTone", "noteOnSynth", "setCustomWaveShape"}

SpInit ==
    /\ EngineInit
    /\ \E M \in Lengths, z \in BOOLEAN, fh \in HalfHertz, sr \in SampleRates :
          /\ M = 0 => z
          /\ sp = [NoSpectrum EXCEPT !.M = M, !.zeroSum = z, !.fh = fh, !.sr = sr]

Built(place, sr, w) ==
    /\ sp.place = "none"
    /\ sp' = [sp EXCEPT !.place = place, !.sr = sr, !.harmonics = w.harmonics, !.dc = w.dc]
    /\ UNCHANGED <<voiceVars, uiVars, wav, off, defs, decoding, ctx, mixer, params, rec, calls, lastOp>>

\* the spectrum startTestTone builds for the drone
BuildForDrone ==
    Built("startTestTone", sp.sr, buildPeriodicForFreq(sp.M, sp.zeroSum, sp.fh, sp.sr))
\* the spectrum noteOnSynth builds for an oscillator of the voice
BuildForNote ==
    Built("noteOnSynth", sp.sr, buildPeriodicForFreq(sp.M, sp.zeroSum, sp.fh, sp.sr))
\* the spectrum setCustomWaveShape builds for a running voice
BuildForShape ==
    Built("setCustomWaveShape", sp.sr, buildPeriodicForFreq(sp.M, sp.zeroSum, sp.fh, sp.sr))
\* the spectrum renderNoteToWav builds in its offline context
BuildForRender ==
    Built("renderNoteToWav", OfflineSampleRate,
          buildPeriodicFromSamples(sp.M, sp.zeroSum, MaxHarmonics))

SpNext ==
    \/ BuildForDrone
    \/ BuildForNote
    \/ BuildForShape
    \/ BuildForRender

SpectrumSpec == SpInit /\ [][SpNext]_vars

\* ---- encodeWav ----
\* A sample buffer is its length M and those of its first samples that are
\* followed (at most MaxSamples); a sample is a number in units of 1/Unit.
MaxSamples == 2
HeaderBytes == 44
BytesPerSample == 2
NegScale == 32768
PosScale == 32767

\* DataView.setUint32 and setUint16 keep the low 32 and 16 bits
Uint32(x) == (x % 65536) + 65536 * ((x \div 65536) % 65536)
Uint16(x) == x % 65536
\* the integer part of n / d, towards zero
Trunc(n, d) == IF n >= 0 THEN n \div d ELSE 0 - ((0 - n) \div d)
\* DataView.setInt16(offset, x, true): NaN becomes 0, the integer part is
\* taken modulo 2^16 and stored low byte first
Int16Bytes(x) ==
    LET i == IF x.nan THEN 0 ELSE Trunc(x.v, Unit)
        u == i % 65536
    IN [lo |-> u % 256, hi |-> u \div 256]
\* DataView.getInt16(offset, true)
Int16Of(b) ==
    LET u == b.lo + 256 * b.hi IN IF u >= 32768 THEN u - 65536 ELSE u

\* s < 0 ? s * 0x8000 : s * 0x7fff
Scaled(s) == IF s.nan THEN NaN ELSE IF s.v < 0 THEN Num(s.v * NegScale) ELSE Num(s.v * PosScale)

encodeSample_noClamp(x) == Int16Bytes(Scaled(x))

\* one round of the sample loop
encodeSample(x) == Int16Bytes(Scaled(Clamp(0 - Unit, Unit, x)))

encodeWav_oneByte(M, first, sampleRate) ==
    LET dataSize == M IN
    [M |-> M, R |-> sampleRate, bytes |-> HeaderBytes + dataSize,
     riffSize |-> Uint32(36 + dataSize), fmtSize |-> 16, format |-> 1, channels |-> 1,
     rate |-> Uint32(sampleRate), byteRate |-> Uint32(sampleRate),
     blockAlign |-> 1, bits |-> 16, dataSize |-> Uint32(dataSize),
     input |-> first, data |-> [i \in 1..Len(first) |-> encodeSample(first[i])]]

encodeWav(M, first, sampleRate) ==
    LET numChannels == 1
        blockAlign == numChannels * BytesPerSample
        byteRate == sampleRate * blockAlign
        dataSize == M * BytesPerSample
    IN [M |-> M, R |-> sampleRate, bytes |-> HeaderBytes + dataSize,
        riffSize |-> Uint32(36 + dataSize), fmtSize |-> Uint32(16), format |-> Uint16(1),
        channels |-> Uint16(numChannels), rate |-> Uint32(sampleRate),
        byteRate |-> Uint32(byteRate), blockAlign |-> Uint16(blockAlign),
        bits |-> Uint16(16), dataSize |-> Uint32(dataSize),
        input |-> first, data |-> [i \in 1..Len(first) |-> encodeSample(first[i])]]

WavLengths == {0, 1, 2, 3, 1000, 88200}
WavRates == {8000, 44100, 48000}
SampleValues ==
    {NaN, Num(0 - 2 * Unit), Num(0 - Unit), Num(0 - (Unit \div 2)), Num(0 - 1), Num(0),
     Num(1), Num(Unit \div 3), Num(Unit), Num(3 * Unit)}
\* the first samples of a buffer of length M
Firsts(M) == [1..Min(M, MaxSamples) -> SampleValues]

EncodeWav(M, first, R) ==
    /\ wav' = encodeWav(M, first, R)
    /\ lastOp' = [NoOp EXCEPT !.op = "encodeWav"]
    /\ UNCHANGED <<voiceVars, uiVars, ctx, mixer, params, rec, sp, off, defs, decoding, calls>>

WavNext == \E M \in WavLengths, R \in WavRates : \E first \in Firsts(M) : EncodeWav(M, first, R)

WavSpec == Init /\ [][WavNext]_vars

\* ---- renderNoteToWav ----
\* Durations are counted in milliseconds.  off.running holds the renders that
\* wait for startRendering, off.done the results in the order of completion.
\* The audio of a render is given by everything the offline graph was built
\* from: the frame count, the parameters read, the envelope times, and the
\* noise buffer (seed: the outcome of its Math.random calls, 0 without noise).
MaxRenders == 2
TailMin == 50
TailMax == 1500
GatePad == 20
Notes == {69}
Durations == {0, 7, 100, 2000}
Seeds == {1, 2}

\* Math.round(sampleRate * seconds)
framesOf_round(ms) == (OfflineSampleRate * ms + 500) \div 1000
\* Math.floor(sampleRate * seconds)
framesOf(ms) == (OfflineSampleRate * ms) \div 1000

\* the parameters renderNoteToWav reads
Reading(S) ==
    [master |-> S.params.currentMaster, cutoff |-> S.params.filterCutoff,
     q |-> S.params.filterQ, dist |-> S.params.distAmount, noise |-> S.params.noiseLevel,
     attack |-> S.params.adsrAttack, decay |-> S.params.adsrDecay,
     sustain |-> S.params.adsrSustain, release |-> S.release]

\* this.noiseLevel > 0
Noisy(S) == ~S.params.noiseLevel.nan /\ S.params.noiseLevel.v > 0

\* the part of renderNoteToWav before its await: the offline graph is built
\* from the parameters as they are now; new OfflineAudioContext throws for a
\* length of 0 frames
renderStart(S, note, ms, seed) ==
    LET frames == framesOf(ms)
        tail == Min(TailMax, Max(TailMin, S.release))
        gateOff == Max(TailMin, ms - tail - GatePad)
    IN IF frames < 1 THEN [ok |-> FALSE, render |-> [note |-> note, ms |-> ms]]
       ELSE [ok |-> TRUE,
             render |-> [note |-> note, ms |-> ms, seen |-> Reading(S),
                         audio |-> [frames |-> frames, read |-> Reading(S),
                                    seed |-> IF Noisy(S) THEN seed ELSE 0,
                                    tail |-> tail, gateOff |-> gateOff, stopAt |-> ms]]]

\* the part after the await: the rendered channel is encoded
renderDone_readsLate(S, r) == [r EXCEPT !.audio.read = Reading(S)]

renderDone(S, r) == r

RenderStart(note, ms, seed) ==
    LET r == renderStart(Eng, note, ms, seed) IN
    /\ Len(off.running) + Len(off.done) < MaxRenders
    /\ off' = IF r.ok THEN [off EXCEPT !.running = Append(@, r.render)] ELSE off
    /\ lastOp' = [NoOp EXCEPT !.op = "renderNoteToWav",
                              !.res = IF r.ok THEN "pending" ELSE "NotSupportedError",
                              !.id = ms]
    /\ UNCHANGED <<voiceVars, uiVars, ctx, mixer, params, rec, sp, wav, defs, decoding, calls>>

RenderDone(i) ==
    LET r == renderDone(Eng, off.running[i]) IN
    /\ off' = [off EXCEPT !.running = [j \in 1..(Len(@) - 1) |->
                                           IF j < i THEN @[j] ELSE @[j + 1]],
                          !.done = Append(@, r)]
    /\ wav' = encodeWav(r.audio.frames, <<>>, OfflineSampleRate)
    /\ lastOp' = [NoOp EXCEPT !.op = "renderDone", !.id = r.ms]
    /\ UNCHANGED <<voiceVars, uiVars, ctx, mixer, params, rec, sp, defs, decoding, calls>>

RenderNext ==
    \/ \E n \in Notes, ms \in Durations, seed \in Seeds : RenderStart(n, ms, seed)
    \/ \E i \in 1..Len(off.running) : RenderDone(i)
    \/ \E x \in Nums : SetMasterGain(x)
    \/ \E x \in Nums : SetNoiseLevel(x)
    \/ \E r \in ReleaseInputs : SetADSR(r)

RenderSpec == Init /\ [][RenderNext]_vars

\* ---- the instrument registry ----
\* the ids `user-${Date.now().toString(16)}-${Math.floor(Math.random() * 1e6)}` can
\* take; two calls can draw the same one
UserIds == {"user-1", "user-2"}
RootNotes == {48, 60}

registerUser_overPiano(D, id, rootNote) ==
    [D EXCEPT !["piano"] = [kind |-> "sample", rootNote |-> rootNote, buffer |-> TRUE]]

\* this.instrumentDefs.set(id, def)
registerUser(D, id, rootNote) ==
    [i \in DOMAIN D \cup {id} |->
        IF i = id THEN [kind |-> "sample", rootNote |-> rootNote, buffer |-> TRUE] ELSE D[i]]

\* addUserInstrument up to its await
AddUserInstrument(rootNote) ==
    LET S == ensureContext(Eng) IN
    /\ Call
    /\ ctx' = S.ctx
    /\ mixer' = S.mixer
    /\ decoding' = Append(decoding, rootNote)
    /\ lastOp' = [NoOp EXCEPT !.op = "addUserInstrument", !.res = "pending"]
    /\ UNCHANGED <<voiceVars, uiVars, params, rec, sp, wav, off, defs>>

\* decodeAudioData settles for the oldest call: when it resolved the
\* definition and the buffer are stored under the generated id and the id is
\* returned, when it rejected the call fails
DecodeSettled(ok, id) ==
    /\ decoding # <<>>
    /\ decoding' = Tail(decoding)
    /\ defs' = IF ok THEN registerUser(defs, id, Head(decoding)) ELSE defs
    /\ sampleCache' = IF ok THEN sampleCache \cup {id} ELSE sampleCache
    /\ lastOp' = [NoOp EXCEPT !.op = "decodeSettled", !.res = IF ok THEN id ELSE "rejected"]
    /\ UNCHANGED <<clock, voices, objs, timers, osc, maxVoices, release, fenvAmount,
                   currentInstrument, instrumentReady, loads, deferred, filterEnv, mixRamp,
                   burst, ctx, mixer, params, rec, sp, wav, off, calls, uiVars>>

RegistryNext ==
    \/ \E r \in RootNotes : AddUserInstrument(r)
    \/ \E ok \in BOOLEAN, id \in UserIds : DecodeSettled(ok, id)
    \/ \E inst \in BuiltInInstrumentIds \cup UserIds : SetInstrument(inst)
    \/ \E p \in 1..MaxLoads, ok \in BOOLEAN : LoadSettled(p, ok)
    \/ \E id \in Ids : NoteOn(id)

RegistrySpec == Init /\ [][RegistryNext]_vars

\* ---- recording ----
\* rec.mode is recMode ("none" for undefined), rec.wavChunks the array wavChunks,
\* rec.recorderNode the field recorderNode (0 for undefined).  The worklet nodes
\* are numbered 1..rec.made; rec.connected holds those master is connected to,
\* rec.enabled those whose processor has _enabled set.  rec.pending counts the
\* start() closures waiting for addModule; rec.inflight is the queue of port
\* messages posted by the processors and not yet handled on the main thread.
\* rec.cap counts the captures started, rec.block the render quanta processed;
\* a block carries the quantum, the capture that was running when it was
\* produced (0 for none) and the node that posted it.
MaxBlocks == 2
Formats == {"wav", "mp3"}
\* the first candidate type MediaRecorder supports, "none" when it supports none
Supported == {"none", "audio/mpeg", "audio/webm;codecs=opus"}

\* new AudioWorkletNode, its onmessage handler, recorderNode = node, master.connect(node)
attachRecorder(R) ==
    LET node == R.made + 1 IN
    [R EXCEPT !.made = node, !.recorderNode = node,
              !.connected = @ \cup {node}, !.enabled = @ \cup {node}]

\* the wav branch of startRecording: start() runs up to its await, or to its
\* end when the module is loaded already
startWav(R) ==
    LET R1 == [R EXCEPT !.wavChunks = <<>>]
        R2 == IF R1.workletLoaded THEN attachRecorder(R1)
              ELSE [R1 EXCEPT !.pending = @ + 1]
    IN [rec |-> [R2 EXCEPT !.mode = "wav", !.cap = @ + 1], res |-> "wav"]

\* the MediaRecorder branch of startRecording; the array mediaChunks is replaced,
\* so a stopped recorder that still waits for its stop event keeps the old one
startMedia(R, supported) ==
    LET r == R.recorders + 1
        mode == IF supported = "audio/mpeg" THEN "mp3" ELSE "webm"
    IN [rec |-> [R EXCEPT !.mediaChunks = <<>>,
                          !.stopping = [i \in DOMAIN @ |->
                                          IF @[i].alias
                                          THEN [@[i] EXCEPT !.alias = FALSE, !.data = R.mediaChunks]
                                          ELSE @[i]],
                          !.recorders = r, !.mediaRecorder = r,
                          !.mode = mode, !.cap = @ + 1],
        res |-> mode]

startRecording_noGuard(R, format, supported) ==
    IF format = "wav" THEN startWav([R EXCEPT !.fallback = FALSE])
    ELSE IF supported = "none" THEN startWav([R EXCEPT !.fallback = TRUE])
    ELSE startMedia([R EXCEPT !.fallback = FALSE], supported)

startRecording_noFallback(R, format, supported) ==
    IF R.mode # "none" THEN [rec |-> R, res |-> "Already recording"]
    ELSE IF format = "wav" THEN startWav([R EXCEPT !.fallback = FALSE])
    ELSE startMedia([R EXCEPT !.fallback = (supported = "none")], supported)

startRecording(R, format, supported) ==
    IF R.mode # "none" THEN [rec |-> R, res |-> "Already recording"]
    ELSE IF format = "wav" THEN startWav([R EXCEPT !.fallback = FALSE])
    ELSE IF supported = "none" THEN startWav([R EXCEPT !.fallback = TRUE])
    ELSE startMedia([R EXCEPT !.fallback = FALSE], supported)

NoBlob == [type |-> "none", chunks |-> <<>>]

\* stopRecording; the wav branch returns the blob, the MediaRecorder branch
\* returns a promise that the recorder's stop event resolves
stopRecording(R, hasCtx) ==
    IF ~hasCtx \/ R.mode = "none" THEN [rec |-> R, res |-> "Not recording", blob |-> NoBlob]
    ELSE IF R.mode = "wav"
    THEN [rec |-> [R EXCEPT !.mode = "none",
                            !.connected = @ \ {R.recorderNode},
                            !.enabled = @ \ {R.recorderNode},
                            !.recorderNode = 0,
                            !.wavChunks = <<>>],
          res |-> "wav",
          blob |-> [type |-> "audio/wav", chunks |-> R.wavChunks]]
    ELSE [rec |-> [R EXCEPT !.mode = "none",
                            !.stopping = Append(@, [recorder |-> R.mediaRecorder, mime |-> R.mode,
                                                    alias |-> TRUE, data |-> <<>>])],
          res |-> "pending", blob |-> NoBlob]

\* addModule settles for the oldest waiting start(): when it resolved the
\* closure goes on and attaches a node, when it rejected the closure ends
moduleLoaded(R, ok) ==
    LET R1 == [R EXCEPT !.pending = @ - 1] IN
    IF ok THEN attachRecorder([R1 EXCEPT !.workletLoaded = TRUE]) ELSE R1

Posting(R) == SelectSeq([i \in 1..R.made |-> i], LAMBDA i : i \in R.connected \cap R.enabled)

\* one render quantum: process() of every enabled processor with an input posts
\* a copy of the block
audioQuantum(R) ==
    LET n == R.block + 1
        c == IF R.mode = "wav" THEN R.cap ELSE 0
        p == Posting(R)
    IN [R EXCEPT !.block = n,
                 !.inflight = @ \o [i \in 1..Len(p) |-> [n |-> n, cap |-> c, node |-> p[i]]]]

\* the onmessage handler of a node: pushes the block to this.wavChunks
deliver(R) ==
    [R EXCEPT !.inflight = Tail(@), !.wavChunks = Append(@, Head(R.inflight))]

\* the stop task of a stopped MediaRecorder: dataavailable pushes the data to
\* this.mediaChunks, then onstop builds the blob from the array stopRecording
\* kept and replaces this.mediaChunks
mediaStopped(R) ==
    LET e == Head(R.stopping)
        pushed == Append(R.mediaChunks, [recorder |-> e.recorder])
        kept == IF e.alias THEN pushed ELSE e.data
    IN [rec |-> [R EXCEPT !.stopping = Tail(@), !.mediaChunks = <<>>],
        blob |-> [type |-> e.mime, chunks |-> kept]]

StartRecording(format, supported) ==
    LET S == ensureContext(Eng)
        r == startRecording(rec, format, supported) IN
    /\ Call
    /\ ctx' = S.ctx
    /\ mixer' = S.mixer
    /\ rec' = r.rec
    /\ lastOp' = [NoOp EXCEPT !.op = "startRecording", !.res = r.res, !.fmt = format,
                              !.sup = supported]
    /\ UNCHANGED <<voiceVars, uiVars, wav, off, defs, decoding, params, sp>>

StopRecording ==
    LET r == stopRecording(rec, ctx) IN
    /\ Call
    /\ rec' = r.rec
    /\ lastOp' = [NoOp EXCEPT !.op = "stopRecording", !.res = r.res, !.blob = r.blob]
    /\ UNCHANGED <<voiceVars, uiVars, wav, off, defs, decoding, ctx, mixer, params, sp>>

ModuleLoaded(ok) ==
    /\ rec.pending > 0
    /\ rec' = moduleLoaded(rec, ok)
    /\ lastOp' = [NoOp EXCEPT !.op = "moduleLoaded"]
    /\ UNCHANGED <<voiceVars, uiVars, wav, off, defs, decoding, ctx, mixer, params, sp, calls>>

AudioQuantum ==
    /\ ctx
    /\ rec.block < MaxBlocks
    /\ rec' = audioQuantum(rec)
    /\ lastOp' = [NoOp EXCEPT !.op = "audioQuantum"]
    /\ UNCHANGED <<voiceVars, uiVars, wav, off, defs, decoding, ctx, mixer, params, sp, calls>>

Deliver ==
    /\ rec.inflight # <<>>
    /\ rec' = deliver(rec)
    /\ lastOp' = [NoOp EXCEPT !.op = "deliver"]
    /\ UNCHANGED <<voiceVars, uiVars, wav, off, defs, decoding, ctx, mixer, params, sp, calls>>

MediaStopped ==
    /\ rec.stopping # <<>>
    /\ LET r == mediaStopped(rec) IN
        /\ rec' = r.rec
        /\ lastOp' = [NoOp EXCEPT !.op = "mediaStopped", !.blob = r.blob]
    /\ UNCHANGED <<voiceVars, uiVars, wav, off, defs, decoding, ctx, mixer, params, sp, calls>>

RecNext ==
    \/ \E f \in Formats, m \in Supported : StartRecording(f, m)
    \/ StopRecording
    \/ \E ok \in BOOLEAN : ModuleLoaded(ok)
    \/ AudioQuantum
    \/ Deliver
    \/ MediaStopped

RecSpec == Init /\ [][RecNext]_vars

\* ---- helpers of the properties ----
NonDrone == {i \in 1..Len(voices) : voices[i].key # DroneKey}
Uids(vs) == {vs[i].uid : i \in 1..Len(vs)}
\* the voice objects that have been released by noteOff and are not yet retired
Released == {u \in DOMAIN objs : objs[u].kind \in {"synth", "sample"} /\ objs[u].since # -1}
RetireBound(rel) == Max(MinRamp, rel) + DisconnectPad

\* C1: with maxVoices = N, N + 1 note-ons with distinct ids issued on an empty
\* table under a non-percussive instrument leave exactly N voices: the first
\* one, which has the earliest startedAt, has been removed and the others live.
C1_StealsOldest ==
    Len(burst) = maxVoices + 1 =>
        /\ Len(voices) = maxVoices
        /\ Keys(voices) = {IdKey(burst[i]) : i \in 2..Len(burst)}
        /\ \A i \in 1..Len(voices) : voices[i].kind \in {"synth", "sample"}

C1_Witness ==
    /\ Len(burst) = maxVoices + 1
    /\ maxVoices = 2
    /\ lastOp.op = "noteOn"
    /\ lastOp.stolen # 0
    /\ \E i, j \in 1..Len(voices) : voices[i].startedAt < voices[j].startedAt

\* C2: a noteOn whose id is already live while the selected instrument is not
\* a drum kit changes nothing: no second voice, no retrigger, and the table,
\* the audio objects and the timers stay as they were.
C2_DuplicateIgnored ==
    [][(/\ lastOp'.op = "noteOn"
        /\ playKind(Eng) # "drumkit"
        /\ HasKey(voices, IdKey(lastOp'.id)))
       => (UNCHANGED prog /\ lastOp'.res = "ignored")]_vars

C2_Witness ==
    /\ lastOp.op = "noteOn"
    /\ lastOp.res = "ignored"
    /\ HasKey(voices, IdKey(lastOp.id))
    /\ lastOp.pre = Len(voices)

C4_DeferredThenRetried ==
    [][/\ (/\ lastOp'.op = "noteOn"
           /\ instrumentReady # 0
           /\ loads[instrumentReady].status = "pending")
          => /\ voices' = voices
             /\ objs' = objs
             /\ deferred' = Append(deferred, [p |-> instrumentReady, id |-> lastOp'.id])
       /\ (/\ lastOp'.op = "loadSettled"
           /\ lastOp'.res = "readyCleared"
           /\ playKind(Eng) = "sample")
          => LET mine == SelectSeq(deferred, LAMBDA e : e.p = lastOp'.id)
                 log == lastOp'.log
             IN /\ Len(log) = Len(mine)
                /\ \A i \in 1..Len(log) :
                      /\ log[i].id = mine[i].id
                      /\ log[i].res =
                            IF \E j \in 1..(i - 1) :
                                  /\ log[j].id = log[i].id
                                  /\ log[j].res = "created"
                                  /\ \A k \in (j + 1)..(i - 1) : log[k].stolen # log[j].made
                            THEN "ignored" ELSE "created"
                /\ mine # <<>> => HasKey(voices', IdKey(mine[Len(mine)].id))
                /\ \A e \in {deferred'[i] : i \in 1..Len(deferred')} : e.p # lastOp'.id]_vars

\* a load has completed and its two queued note-ons have been retried
C4_Witness ==
    /\ lastOp.op = "loadSettled"
    /\ lastOp.res = "readyCleared"
    /\ currentInstrument = "piano"
    /\ Len(lastOp.log) = 2
    /\ lastOp.log[1].res = "created"
    /\ lastOp.log[2].res = "created"

\* C4 as stated: when the selected sample instrument's load completes, every
\* note-on queued on it creates a voice.
C4_EveryDeferredCreates ==
    (lastOp.op = "loadSettled" /\ lastOp.res = "readyCleared" /\ playKind(Eng) = "sample")
        => \A i \in 1..Len(lastOp.log) : lastOp.log[i].res = "created"

\* C5: noteOff(id) while no voice is stored under id changes nothing, in any
\* state, before the audio context exists included.
C5_NoteOffNoVoiceNoOp ==
    [][(lastOp'.op = "noteOff" /\ ~HasKey(voices, IdKey(lastOp'.id)))
       => (UNCHANGED prog /\ lastOp'.res = "noop")]_vars

C5_Witness ==
    /\ lastOp.op = "noteOff"
    /\ lastOp.res = "noop"
    /\ ctx
    /\ voices # <<>>
    /\ ~HasKey(voices, IdKey(lastOp.id))

\* C6 (as the code has it): a noteOff call from outside never stops or removes
\* a drum voice; a drum voice's table entry goes away when a drum source
\* started under the same key ends, when allNotesOff or setInstrument
\* force-stops it, or when a drum hit with the same id in the same instant
\* (a noteOn call or the retry of a queued one) takes over its key.
C6_DrumEntryRemoval ==
    [][/\ \A i \in 1..Len(voices) :
             (/\ voices[i].kind = "drum"
              /\ \A j \in 1..Len(voices') : voices'[j] # voices[i])
             => \/ /\ lastOp'.op = "ended"
                   /\ lastOp'.kind = "drum"
                   /\ objs[lastOp'.id].key = voices[i].key
                \/ lastOp'.op \in {"allNotesOff", "setInstrument"}
                \/ /\ lastOp'.op \in {"noteOn", "loadSettled"}
                   /\ \E j \in 1..Len(voices') :
                         /\ voices'[j].key = voices[i].key
                         /\ voices'[j].kind = "drum"
                         /\ voices'[j].uid # voices[i].uid
       /\ lastOp'.op = "noteOff"
             => \A u \in DOMAIN objs :
                   objs[u].kind = "drum" => (u \in DOMAIN objs' /\ objs'[u] = objs[u])]_vars

\* noteOff(id) has been called while a drum voice started by noteOn(id) sounds
C6_Witness ==
    /\ lastOp.op = "noteOff"
    /\ \E i \in 1..Len(voices) :
          /\ voices[i].kind = "drum"
          /\ voices[i].key.id = lastOp.id
          /\ voices[i].uid \in DOMAIN objs
          /\ objs[voices[i].uid].running
          /\ objs[voices[i].uid].stopIn = -1

\* C6 as stated: the key of a drum voice leaves the table only by the
\* end-of-playback event of a drum source.
C6_OnlyOwnEnd ==
    [][\A i \in 1..Len(voices) :
          (voices[i].kind = "drum" /\ ~HasKey(voices', voices[i].key))
          => (lastOp'.op = "ended" /\ lastOp'.kind = "drum")]_vars

\* C7: right after allNotesOff the voice table is empty and no drone
\* oscillator is registered.
C7_AllNotesOffClears ==
    lastOp.op = "allNotesOff" => (voices = <<>> /\ osc = 0)

\* allNotesOff has been called with the drone and another voice live
C7_Witness ==
    /\ lastOp.op = "allNotesOff"
    /\ lastOp.pre >= 2
    /\ lastOp.preOsc # 0
    /\ voices = <<>>

\* C8: the voice a noteOn steals is not the drone and has the least startedAt
\* of the non-drone voices; the drone's entry is left as it is.
C8_VictimOldestNonDrone ==
    [][lastOp'.op = "noteOn"
       => /\ lastOp'.stolen # 0
             => \E i \in NonDrone :
                   /\ voices[i].uid = lastOp'.stolen
                   /\ \A j \in NonDrone : voices[i].startedAt <= voices[j].startedAt
                   /\ voices[i].uid \notin Uids(voices')
          /\ HasKey(voices, DroneKey)
             => (HasKey(voices', DroneKey) /\ Get(voices', DroneKey) = Get(voices, DroneKey))]_vars

\* a voice has been stolen while the drone, older than every other voice, stays
C8_Witness ==
    /\ lastOp.op = "noteOn"
    /\ lastOp.stolen # 0
    /\ HasKey(voices, DroneKey)
    /\ Len(voices) >= 2
    /\ \A i \in NonDrone : Get(voices, DroneKey).startedAt < voices[i].startedAt

\* C9 as stated: with the drone sounding and fewer than maxVoices non-drone
\* voices live, a noteOn with a new id steals no voice.
C9_DroneNotCounted ==
    [][(/\ lastOp'.op = "noteOn"
        /\ osc # 0
        /\ HasKey(voices, DroneKey)
        /\ Cardinality(NonDrone) < maxVoices
        /\ ~HasKey(voices, IdKey(lastOp'.id)))
       => lastOp'.stolen = 0]_vars

\* C10 as stated: the live non-drone voices never outnumber maxVoices.
C10_NonDroneWithinCap ==
    Cardinality(NonDrone) <= maxVoices

\* C11: startRecording while a capture is active fails with "Already recording"
\* and stopRecording while none is active fails with "Not recording"; the failed
\* call leaves the recording mode, the chunks and the rest of the recorder as
\* they were.
C11_FailedCallKeepsRecorder ==
    [][/\ (lastOp'.op = "startRecording" /\ rec.mode # "none")
            => (lastOp'.res = "Already recording" /\ rec' = rec)
       /\ (lastOp'.op = "stopRecording" /\ (~ctx \/ rec.mode = "none"))
            => (lastOp'.res = "Not recording" /\ rec' = rec)]_vars

\* a start refused during a wav capture that has collected a block already
C11_Witness ==
    /\ lastOp.op = "startRecording"
    /\ lastOp.res = "Already recording"
    /\ rec.mode = "wav"
    /\ rec.wavChunks # <<>>

\* C12: once stopRecording has completed, no recorder node is connected to the master.
C12_NoNodeAfterStop ==
    rec.mode = "none" => rec.connected = {}

\* C13: the blob of a wav capture holds only blocks produced during that
\* capture, each of them once, in the order of the render quanta.
C13_OwnBlocksOnly ==
    (lastOp.op = "stopRecording" /\ lastOp.res = "wav") =>
        LET b == lastOp.blob.chunks IN
        /\ \A i \in 1..Len(b) : b[i].cap = rec.cap
        /\ \A i, j \in 1..Len(b) : i < j => b[i].n < b[j].n

\* C14: startRecording with a compressed format when MediaRecorder supports no
\* candidate type returns mode "wav" and leaves the engine recording in wav
\* mode, and the stopRecording that ends this capture returns a WAV blob.
C14_FallsBackToWav ==
    [][/\ (lastOp'.op = "startRecording" /\ lastOp'.fmt = "mp3" /\ lastOp'.sup = "none"
            /\ rec.mode = "none")
            => (lastOp'.res = "wav" /\ rec'.mode = "wav")
       /\ (lastOp'.op = "stopRecording" /\ rec.mode # "none" /\ rec.fallback)
            => (lastOp'.res = "wav" /\ lastOp'.blob.type = "audio/wav")]_vars

\* a capture started through the fallback has been stopped with a block in its blob
C14_Witness ==
    /\ lastOp.op = "stopRecording"
    /\ rec.fallback
    /\ lastOp.blob.type = "audio/wav"
    /\ lastOp.blob.chunks # <<>>

\* the documented range of a stored parameter, bounds in units of 1/Unit
Within(x, lo, hi) == ~x.nan /\ lo <= x.v /\ x.v <= hi

\* C15: after any sequence of setter calls with arbitrary numbers every stored
\* parameter lies in its documented range.
C15_ParamsInRange ==
    /\ Within(params.currentMaster, 0, Unit)
    /\ Within(params.filterCutoff, 20 * Unit, 20000 * Unit)
    /\ Within(params.filterQ, 1, 40 * Unit)
    /\ Within(params.distAmount, 0, Unit)
    /\ Within(params.lfoRate, Unit \div 10, 30 * Unit)
    /\ Within(params.vibratoCents, 0, 200 * Unit)
    /\ Within(params.filterLfoCents, 0, 4800 * Unit)
    /\ Within(params.tremoloDepth, 0, Unit)
    /\ Within(params.unisonCount, Unit, 7 * Unit)
    /\ params.unisonCount.v % Unit = 0
    /\ Within(params.delayTime, 0, 2 * Unit)
    /\ Within(params.delayFeedbackAmt, 0, (95 * Unit) \div 100)
    /\ Within(params.delayMix, 0, Unit)
    /\ Within(params.reverbSize, Unit \div 10, 6 * Unit)
    /\ Within(params.reverbMix, 0, Unit)
    /\ Within(params.adsrSustain, 0, Unit)
    /\ Within(params.fenvSustain, 0, Unit)
    /\ Within(params.ampVelSense, 0, Unit)
    /\ Within(params.filtVelSense, 0, Unit)
    /\ Within(params.filtKeytrack, 0, Unit)

\* the audio objects of the table entries that are still playing
Sounding == {u \in Uids(voices) \cap DOMAIN objs : objs[u].running}

\* C16: after setVibratoCents the LFO pitch tap is connected to the pitch input
\* of the generators of every sounding voice, whatever its kind and whenever it
\* was created.
C16_PitchTapOnEveryVoice ==
    lastOp.op = "setVibratoCents" => \A u \in Sounding : objs[u].vib

\* the end value of the ramp stopTestTone schedules
RampEnd == Num(0)

\* C17: once the graph exists the voice-mixer gain is 1 - tremoloDepth * 0.5,
\* the tremolo tap amplitude is tremoloDepth * 0.5, and a ramp scheduled on the
\* mixer gain ends at 1 - tremoloDepth * 0.5.
C17_MixerGainFollowsTremolo ==
    mixer.made =>
        /\ mixer.gain = OneMinus(Half(params.tremoloDepth))
        /\ mixer.amp = Half(params.tremoloDepth)
        /\ mixRamp => RampEnd = OneMinus(Half(params.tremoloDepth))

C19_CoefficientsFinite ==
    sp.place # "none" => (sp.harmonics >= 0 /\ sp.dc = "finite")

\* C20: every place that builds a spectrum, the offline render included, caps
\* the harmonic count by the target pitch.
C20_EveryPlaceCapsByPitch ==
    sp.place # "none" => sp.harmonics <= Max(1, sp.sr \div Max(2, sp.fh))

\* C21: for M samples at sample rate R encodeWav writes 44 + 2 * M bytes whose
\* header declares RIFF size 36 + 2 * M, PCM format 1, 1 channel, sample rate R,
\* byte rate 2 * R, block align 2, 16 bits per sample and data size 2 * M.
C21_WavHeader ==
    lastOp.op = "encodeWav" =>
        /\ wav.bytes = 44 + 2 * wav.M
        /\ wav.riffSize = 36 + 2 * wav.M
        /\ wav.fmtSize = 16
        /\ wav.format = 1
        /\ wav.channels = 1
        /\ wav.rate = wav.R
        /\ wav.byteRate = 2 * wav.R
        /\ wav.blockAlign = 2
        /\ wav.bits = 16
        /\ wav.dataSize = 2 * wav.M

\* two seconds of audio at 44100 Hz have been encoded
C21_Witness ==
    /\ lastOp.op = "encodeWav"
    /\ wav.M = 88200
    /\ wav.R = 44100
    /\ wav.dataSize = 176400

\* the sample clamped to [-1, 1]
Clamped(x) == IF x.v < 0 - Unit THEN 0 - Unit ELSE IF x.v > Unit THEN Unit ELSE x.v

\* C22: every stored value, read back as a little-endian signed 16-bit
\* integer, lies in [-32768, 32767] and has not wrapped around: for a sample
\* that is a number it is within 1 LSB of the clamped sample times 32768
\* (negative) or 32767 (non-negative), with the sample's sign; a NaN sample is
\* stored as 0.
C22_SamplesQuantised ==
    lastOp.op = "encodeWav" =>
        \A i \in 1..Len(wav.data) :
            LET x == wav.input[i]
                d == Int16Of(wav.data[i])
                c == Clamped(x)
                exact == IF c < 0 THEN c * 32768 ELSE c * 32767
            IN /\ d >= 0 - 32768 /\ d <= 32767
               /\ x.nan => d = 0
               /\ ~x.nan => /\ d * Unit - exact < Unit
                            /\ exact - d * Unit < Unit
                            /\ (c < 0 => d <= 0) /\ (c >= 0 => d >= 0)

\* a sample above 1 stored as 32767 next to a sample below -1 stored as -32768
C22_Witness ==
    /\ lastOp.op = "encodeWav"
    /\ Len(wav.data) = 2
    /\ wav.input[1].v > Unit /\ Int16Of(wav.data[1]) = 32767
    /\ wav.input[2].v < 0 - Unit /\ Int16Of(wav.data[2]) = 0 - 32768

\* the renders that have been started and not refused
Renders == {off.running[i] : i \in 1..Len(off.running)} \cup {off.done[i] : i \in 1..Len(off.done)}
LastDone == off.done[Len(off.done)]

\* C23: renderNoteToWav(note, seconds) returns a WAV whose sample count is
\* floor(seconds * 44100), the header's data size being twice that count; a
\* duration of less than one frame is refused.
C23_SampleCountIsFloor ==
    /\ \A r \in Renders : r.audio.frames = (44100 * r.ms) \div 1000 /\ r.audio.frames >= 1
    /\ lastOp.op = "renderDone" =>
          /\ wav.M = LastDone.audio.frames
          /\ wav.R = 44100
          /\ wav.dataSize = 2 * wav.M
    /\ (lastOp.op = "renderNoteToWav" /\ (44100 * lastOp.id) \div 1000 < 1)
          => lastOp.res = "NotSupportedError"

\* note 69 rendered for 2.0 s: 88200 samples
C23_Witness ==
    /\ lastOp.op = "renderDone"
    /\ LastDone.note = 69 /\ LastDone.ms = 2000
    /\ wav.M = 88200 /\ wav.dataSize = 176400

\* C23 as stated: the sample count is round(seconds * sampleRate).
C23_SampleCountIsRound ==
    \A r \in Renders : r.audio.frames = framesOf_round(r.ms)

\* C24: in every offline render the gate-off time plus the tail length is at
\* most the requested duration.
C24_TailFitsDuration ==
    \A r \in Renders : r.audio.gateOff + r.audio.tail <= r.ms

\* C25: two renders of the same note and duration that read the same
\* parameter values produce the same audio.
C25_RenderDeterministic ==
    \A i, j \in 1..Len(off.done) :
        (off.done[i].note = off.done[j].note /\ off.done[i].ms = off.done[j].ms
         /\ off.done[i].seen = off.done[j].seen)
            => off.done[i].audio = off.done[j].audio

\* C26: renderNoteToWav leaves the voice table, the audio objects, the
\* parameters, the live graph, the registry and the recorder as they are, before
\* and after its await, and its result is built from the parameter values of
\* the moment of the call, whatever was set while it was rendering.
C26_RenderIsolated ==
    [][/\ lastOp'.op \in {"renderNoteToWav", "renderDone"}
            => UNCHANGED <<voiceVars, ctx, mixer, params, rec, defs, sp>>
       /\ lastOp'.op = "renderDone"
            => off'.done[Len(off'.done)].audio.read = off'.done[Len(off'.done)].seen]_vars

\* a render completed after the master gain it had read was changed
C26_Witness ==
    /\ lastOp.op = "renderDone"
    /\ LastDone.audio.read.master # params.currentMaster
    /\ LastDone.audio.read.master = LastDone.seen.master

\* C27: every built-in instrument id stays in the registry with its original
\* definition; a successful addUserInstrument stores its definition under the
\* id it returns and changes no other entry: it adds exactly one entry when the
\* id is new and replaces the entry when the id was drawn before.
C27_RegistryKeepsBuiltIns ==
    [][/\ \A b \in BuiltInInstrumentIds :
            b \in DOMAIN defs' /\ defs'[b] = BASE_INSTRUMENT_LIBRARY[b]
       /\ lastOp'.op # "decodeSettled" => defs' = defs
       /\ (lastOp'.op = "decodeSettled" /\ lastOp'.res = "rejected") => defs' = defs
       /\ (lastOp'.op = "decodeSettled" /\ lastOp'.res # "rejected") =>
            /\ DOMAIN defs' = DOMAIN defs \cup {lastOp'.res}
            /\ defs'[lastOp'.res].kind = "sample" /\ defs'[lastOp'.res].buffer
            /\ \A i \in DOMAIN defs \ {lastOp'.res} : defs'[i] = defs[i]]_vars

\* a user instrument has been added and selected, the built-ins are all there
C27_Witness ==
    /\ currentInstrument \in UserIds
    /\ currentInstrument \in DOMAIN defs
    /\ Cardinality(DOMAIN defs) = 7

\* C27 as stated: each successful addUserInstrument adds exactly one new entry.
C27_EveryAddIsNew ==
    [][(lastOp'.op = "decodeSettled" /\ lastOp'.res # "rejected")
        => Cardinality(DOMAIN defs') = Cardinality(DOMAIN defs) + 1]_vars

\* the load the engine waits for has failed
LoadFailed == instrumentReady # 0 /\ loads[instrumentReady].status = "rejected"

\* C28: a failed load is reported to the caller of setInstrument and leaves the
\* selection and the voices alone; while the failed load is the one the
\* engine waits for, noteOn creates nothing and throws nothing; and once a
\* load of the selected instrument has succeeded and nothing is awaited, noteOn
\* creates a voice again.
C28_FailedLoadSilentUntilLoaded ==
    [][/\ (lastOp'.op = "loadSettled" /\ lastOp'.res = "rejected")
            => /\ currentInstrument' = currentInstrument
               /\ voices' = voices /\ objs' = objs
       /\ (lastOp'.op = "noteOn" /\ LoadFailed)
            => /\ lastOp'.res = "dropped"
               /\ voices' = voices /\ objs' = objs
               /\ currentInstrument' = currentInstrument
       /\ (lastOp'.op = "loadSettled" /\ lastOp'.res = "readyCleared")
            => (instrumentReady' = 0 /\ currentInstrument' \in sampleCache')
       /\ (lastOp'.op = "noteOn" /\ instrumentReady = 0 /\ currentInstrument \in sampleCache
           /\ defKind(currentInstrument) \in {"sample", "drumkit"}
           /\ (defKind(currentInstrument) = "drumkit" \/ ~HasKey(voices, IdKey(lastOp'.id))))
            => (lastOp'.res = "created" /\ lastOp'.made \in DOMAIN objs')]_vars

\* a note-on dropped because the load of the selected instrument has failed
C28_Witness ==
    /\ lastOp.op = "noteOn"
    /\ lastOp.res = "dropped"
    /\ LoadFailed
    /\ loads[instrumentReady].inst = currentInstrument
    /\ voices = <<>>

\* C29: setInstrument is a configuration change only: a call neither creates,
\* nor releases, nor removes a live voice (the voice table and every voice's
\* nodes are as they were before the call).
C29_SetInstrumentKeepsVoices ==
    [][lastOp'.op = "setInstrument" => (voices' = voices /\ objs' = objs)]_vars

\* ---- the voice engine with the envelope setters ----
\* envelope times given to setADSR and setFilterEnv, in seconds and in
\* milliseconds
EnvTimes == {Num(0), Num(Unit \div 2)}
EnvSustains == {Num(Unit \div 2)}
EnvReleases == {0, 300}
EnvAmounts == {800}
EnvInstruments == {"piano"}

EnvNext ==
    \/ \E id \in Ids : NoteOn(id)
    \/ \E id \in Ids : NoteOff(id)
    \/ StartTestTone
    \/ StopTestTone
    \/ \E n \in 1..1 : SetMaxVoices(n)
    \/ \E a, d \in EnvTimes, x \in EnvSustains, r \in EnvReleases : SetADSR4(a, d, x, r)
    \/ \E a, d, r \in EnvTimes, x \in EnvSustains, h \in EnvAmounts : SetFilterEnv(a, d, x, r, h)
    \/ \E inst \in EnvInstruments : SetInstrument(inst)
    \/ \E p \in 1..MaxLoads, ok \in BOOLEAN : LoadSettled(p, ok)
    \/ \E u \in 1..MaxObjs : SourceEnded(u)
    \/ \E t \in timers : TimerFired(t)
    \/ Tick

EnvSpec == Init /\ [][EnvNext]_vars

\* the ramps the step has scheduled
Scheduled(by, on, param) ==
    {i \in DOMAIN lastOp'.ramps :
        /\ lastOp'.ramps[i].by = by
        /\ lastOp'.ramps[i].on = on
        /\ lastOp'.ramps[i].param = param}

\* C30: every envelope ramp a trigger or a release schedules, on a gain or on
\* a filter frequency, of a synth, sample or drone voice, lasts at least 1 ms,
\* whatever the attack, decay and release are; a release ramp starts from the
\* value the parameter has at the call. A created synth voice gets its two
\* gain ramps and a released voice its gain ramp.
C30_RampsAtLeastOneMs ==
    [][/\ \A i \in DOMAIN lastOp'.ramps :
            /\ ~lastOp'.ramps[i].dur.nan
            /\ lastOp'.ramps[i].dur.v >= Millis(MinRamp).v
            /\ lastOp'.ramps[i].by = "release" => lastOp'.ramps[i].from = "current"
       /\ (lastOp'.op \in {"noteOn", "startTestTone"} /\ lastOp'.res = "created"
            /\ objs'[lastOp'.made].kind \in {"synth", "sample", "drone"})
            => Scheduled("trigger", lastOp'.made, "gain") # {}
       /\ (lastOp'.op = "noteOff" /\ lastOp'.res = "released"
            /\ Get(voices, IdKey(lastOp'.id)).kind \in {"synth", "sample"})
            => /\ Scheduled("release", Get(voices, IdKey(lastOp'.id)).uid, "gain") # {}
               /\ Scheduled("release", Get(voices, IdKey(lastOp'.id)).uid, "frequency") # {}
       /\ (lastOp'.op = "stopTestTone" /\ osc # 0)
            => /\ Scheduled("release", SharedFilter, "frequency") # {}
               /\ \/ Scheduled("release", osc, "gain") # {}
                  \/ Scheduled("release", VoiceMixer, "gain") # {}]_vars

\* with attack, decay and release all 0, a note-on has stolen a voice: the
\* stolen voice's release and the new voice's attack and decay each last 1 ms
C30_Witness ==
    /\ lastOp.op = "noteOn"
    /\ lastOp.res = "created"
    /\ lastOp.stolen # 0
    /\ params.adsrAttack = Num(0)
    /\ params.adsrDecay = Num(0)
    /\ release = 0
    /\ \E i, j, k \in DOMAIN lastOp.ramps :
          /\ i < j /\ j < k
          /\ lastOp.ramps[i] = [by |-> "release", on |-> lastOp.stolen, param |-> "gain",
                                from |-> "current", dur |-> Millis(MinRamp)]
          /\ lastOp.ramps[j] = [by |-> "trigger", on |-> lastOp.made, param |-> "gain",
                                from |-> "zero", dur |-> Millis(MinRamp)]
          /\ lastOp.ramps[k] = [by |-> "trigger", on |-> lastOp.made, param |-> "gain",
                                from |-> "previous", dur |-> Millis(MinRamp)]

\* C31: whenever the drone oscillator is running (this.osc is set), the voice
\* table holds a "drone" entry and that entry is the voice of this oscillator.
C31_DroneEntryWhileRunning ==
    osc # 0 => (HasKey(voices, DroneKey) /\ Get(voices, DroneKey).uid = osc)

\* C32: when noteOn(id) was deferred on a pending load and noteOff(id) came
\* before the load completed (and no new noteOn(id) since), the completion of
\* the load creates no voice for id: no voice is left sounding that no
\* note-off will release, whatever instrument is selected by then.
C32_NoVoiceAfterEarlyNoteOff ==
    [][lastOp'.op = "loadSettled"
        => \A i \in DOMAIN lastOp'.log :
              lastOp'.log[i].id \in lastOp.offs => lastOp'.log[i].res # "created"]_vars

\* the engine waits for a load that has not settled
LoadPending == instrumentReady # 0 /\ loads[instrumentReady].status = "pending"

\* C33: setInstrument of a sample-backed instrument makes its own new load the
\* one the engine waits for; the completion of any other load leaves that
\* pending state as it is, and the note-ons it retries are deferred again and
\* create no voice; a note-on is deferred for as long as the load is pending.
C33_OnlyLastLoadClearsPending ==
    [][/\ (lastOp'.op = "setInstrument" /\ defKind(currentInstrument') \in {"sample", "drumkit"})
            => /\ instrumentReady' # 0
               /\ instrumentReady' \notin {q \in DOMAIN loads : loads[q].status = "pending"}
               /\ loads'[instrumentReady'] =
                     [inst |-> currentInstrument', status |-> "pending",
                      fetch |-> currentInstrument' \notin sampleCache]
       /\ (lastOp'.op = "loadSettled" /\ lastOp'.id # instrumentReady)
            => /\ instrumentReady' = instrumentReady
               /\ LoadPending
                    => /\ voices' = voices /\ objs' = objs
                       /\ \A i \in DOMAIN lastOp'.log : lastOp'.log[i].res = "deferred"
                       /\ \A k \in 1..Len(deferred') : deferred'[k].p # lastOp'.id
       /\ (lastOp'.op = "loadSettled" /\ lastOp'.id = instrumentReady /\ lastOp'.res # "rejected")
            => instrumentReady' = 0
       /\ (lastOp'.op = "noteOn" /\ LoadPending)
            => (lastOp'.res = "deferred" /\ voices' = voices /\ objs' = objs)]_vars

\* the load of A has completed while the load of B, started later, is pending:
\* the note-on retried by A's completion has been deferred again
C33_Witness ==
    /\ lastOp.op = "loadSettled"
    /\ lastOp.res = "stale"
    /\ LoadPending
    /\ Len(lastOp.log) = 1
    /\ lastOp.log[1].res = "deferred"
    /\ Len(deferred) = 1
    /\ deferred[1].p = instrumentReady
    /\ voices = <<>>

\* C34: when the source of a sample voice ends, its callback deletes the table
\* entry of its id only if that entry is this very voice; every other entry,
\* a newer voice under the same id included, stays in the table as it is.
C34_EndedSampleKeepsNewerVoice ==
    [][(lastOp'.op = "ended" /\ lastOp'.kind = "sample")
        => /\ voices' = SelectSeq(voices, LAMBDA v : v.uid # lastOp'.id)
           /\ \A k \in 1..Len(voices) :
                 (voices[k].key = lastOp'.key /\ voices[k].uid # lastOp'.id)
                    => HasKey(voices', lastOp'.key)]_vars

\* the source of a released sample voice has ended while a newer voice of the
\* same id is in the table
C34_Witness ==
    /\ lastOp.op = "ended"
    /\ lastOp.kind = "sample"
    /\ lastOp.since # -1
    /\ HasKey(voices, lastOp.key)
    /\ Get(voices, lastOp.key).kind = "sample"
    /\ Get(voices, lastOp.key).uid # lastOp.id

\* ---- the noise branch ----
NoiseInputs == Nums \cup {Num(0)}

\* setNoiseLevel as a call of the API. A NaN level given before the context
\* exists makes the later ensureContext throw half-way through building the
\* graph; that run is not followed here.
NoiseLevel(x) ==
    LET S == setNoiseLevel(Eng, x) IN
    /\ ctx \/ ~x.nan
    /\ Call
    /\ Commit(S)
    /\ lastOp' = Did("setNoiseLevel", 0, S)
    /\ burst' = KeepBurst(S)

NoiseNext ==
    \/ \E x \in NoiseInputs : NoiseLevel(x)
    \/ \E id \in Ids : NoteOn(id)
    \/ \E id \in Ids : NoteOff(id)
    \/ Tick

NoiseSpec == Init /\ [][NoiseNext]_vars

\* C35: once the audio context exists, the looping noise source is running if
\* and only if the stored noise level is greater than 0, and at most one noise
\* source is running.
C35_NoiseRunsIffLevelPositive ==
    ctx => /\ mixer.noiseSrc <=> Positive(params.noiseLevel)
           /\ mixer.noiseOn = (IF mixer.noiseSrc THEN 1 ELSE 0)
           /\ mixer.noiseOn <= 1

\* ---- the on-screen keyboard ----
\* the variables of the engine, which the user-interface components of the
\* model leave alone
engineVars == <<voiceVars, ctx, mixer, params, rec, sp, wav, off, defs, decoding>>

\* keys of the keyboard that the pointer is used on, and keys that are typed:
\* z and s are in the QWERTY map, a is not
KeyNotes == {48, 49}
TypedKeys == {"z", "s", "a"}
keyMap == [k \in {"z", "s"} |-> IF k = "z" THEN 48 ELSE 49]

handleDown_noGuard(K, note) ==
    [K EXCEPT !.pressed = @ \cup {note},
              !.out = Append(@, [call |-> "onNoteOn", note |-> note])]
handleDown(K, note) ==
    IF note \in K.pressed THEN K
    ELSE [K EXCEPT !.pressed = @ \cup {note},
                   !.out = Append(@, [call |-> "onNoteOn", note |-> note])]
handleUp(K, note) ==
    IF note \notin K.pressed THEN K
    ELSE [K EXCEPT !.pressed = @ \ {note},
                   !.out = Append(@, [call |-> "onNoteOff", note |-> note])]
\* the window's keydown and keyup listeners
downHandler(K, key, repeat) ==
    IF repeat THEN K
    ELSE IF key \notin DOMAIN keyMap THEN K
    ELSE handleDown(K, keyMap[key])
upHandler(K, key) ==
    IF key \notin DOMAIN keyMap THEN K ELSE handleUp(K, keyMap[key])

\* an event of the keyboard and what its handler leaves behind
KeyEvent(name, id, K) ==
    /\ Call
    /\ kb' = K
    /\ lastOp' = [NoOp EXCEPT !.op = name, !.id = id,
                              !.res = IF K = kb THEN "ignored" ELSE "emitted"]
    /\ UNCHANGED <<engineVars, seq, font>>

PointerDown(n) == KeyEvent("pointerDown", n, handleDown(kb, n))
PointerUp(n) == KeyEvent("pointerUp", n, handleUp(kb, n))
PointerLeave(n) == KeyEvent("pointerLeave", n, handleUp(kb, n))
KeyDown(k, repeat) == KeyEvent("keyDown", 0, downHandler(kb, k, repeat))
KeyUp(k) == KeyEvent("keyUp", 0, upHandler(kb, k))

KbNext ==
    \/ \E n \in KeyNotes : PointerDown(n)
    \/ \E n \in KeyNotes : PointerUp(n)
    \/ \E n \in KeyNotes : PointerLeave(n)
    \/ \E k \in TypedKeys, repeat \in BOOLEAN : KeyDown(k, repeat)
    \/ \E k \in TypedKeys : KeyUp(k)

KbSpec == Init /\ [][KbNext]_vars

\* the calls emitted for one note, in order
CallsFor(n) == SelectSeq(kb.out, LAMBDA e : e.note = n)

\* C36: for every key, the onNoteOn and onNoteOff calls emitted for its note
\* strictly alternate and start with onNoteOn, whatever pointer and keyboard
\* events arrive; the note is in pressed exactly while its last call is a
\* note-on.
C36_NoteCallsAlternate ==
    \A n \in KeyNotes :
        /\ \A i \in 1..Len(CallsFor(n)) :
              CallsFor(n)[i].call = (IF i % 2 = 1 THEN "onNoteOn" ELSE "onNoteOff")
        /\ n \in kb.pressed <=> Len(CallsFor(n)) % 2 = 1

\* a note was pressed, released and pressed again, and one more event for it
\* was ignored
C36_Witness ==
    /\ calls = 4
    /\ \E n \in KeyNotes :
          kb.out = <<[call |-> "onNoteOn", note |-> n], [call |-> "onNoteOff", note |-> n],
                     [call |-> "onNoteOn", note |-> n]>>

\* ---- the step sequencer's transport ----
\* playStep: shows and plays the step of stepRef (the notes of its active
\* cells are handed to playNote and are not part of the transport's state),
\* then moves stepRef on
playStep(Q) ==
    [Q EXCEPT !.currentStep = Q.stepRef, !.stepRef = (Q.stepRef + 1) % STEP_COUNT]

\* window.setInterval returns an id that no active timer has
FreshTimer(Q) ==
    1 + (CHOOSE m \in Q.timers \cup {0} : \A t \in Q.timers \cup {0} : m >= t)
\* window.clearInterval(intervalRef.current) when it is not null
clearStepTimer(Q) ==
    IF Q.intervalRef # 0
    THEN [Q EXCEPT !.timers = @ \ {Q.intervalRef}, !.intervalRef = 0]
    ELSE Q

\* handlePlay up to its await: the call keeps the isPaused of its render
handlePlay(Q) ==
    IF Q.isPlaying THEN Q
    ELSE [Q EXCEPT !.resuming = Append(@, [isPaused |-> Q.isPaused])]
\* handlePlay after resume() has resolved, for the i-th waiting call
playResumed(Q, i) ==
    LET c == Q.resuming[i]
        Q1 == IF ~c.isPaused THEN [Q EXCEPT !.stepRef = 0] ELSE Q
        Q2 == playStep(Q1)
        id == FreshTimer(Q2)
    IN [Q2 EXCEPT !.intervalRef = id, !.timers = @ \cup {id},
                  !.isPlaying = TRUE, !.isPaused = FALSE,
                  !.resuming = [j \in 1..(Len(@) - 1) |-> IF j < i THEN @[j] ELSE @[j + 1]]]
\* pausedAt is history: the step the transport was paused at
handlePause(Q) ==
    IF ~Q.isPlaying THEN Q
    ELSE [clearStepTimer(Q) EXCEPT !.isPlaying = FALSE, !.isPaused = TRUE,
                                   !.pausedAt = Q.stepRef]
handleStop(Q) ==
    [clearStepTimer(Q) EXCEPT !.isPlaying = FALSE, !.isPaused = FALSE, !.stepRef = 0,
                              !.currentStep = -1, !.pausedAt = -1]

SeqEvent(name, res, Q) ==
    /\ seq' = Q
    /\ lastOp' = [NoOp EXCEPT !.op = name, !.res = res]
    /\ UNCHANGED <<engineVars, kb, font>>

PlayClick ==
    /\ Call
    /\ SeqEvent("handlePlay", IF seq.isPlaying THEN "ignored" ELSE "resuming", handlePlay(seq))
PlayResumed(i) ==
    /\ i \in 1..Len(seq.resuming)
    /\ calls' = calls
    /\ SeqEvent("playResumed", IF seq.resuming[i].isPaused THEN "continued" ELSE "restarted",
                playResumed(seq, i))
PauseClick ==
    /\ Call
    /\ SeqEvent("handlePause", IF seq.isPlaying THEN "done" ELSE "ignored", handlePause(seq))
StopClick ==
    /\ Call
    /\ SeqEvent("handleStop", "done", handleStop(seq))
\* a step timer fires
StepTimer(t) ==
    /\ t \in seq.timers
    /\ calls' = calls
    /\ SeqEvent("stepTimer", "done", playStep(seq))

SeqNext ==
    \/ PlayClick
    \/ \E i \in 1..Len(seq.resuming) : PlayResumed(i)
    \/ PauseClick
    \/ StopClick
    \/ \E t \in seq.timers : StepTimer(t)

SeqSpec == Init /\ [][SeqNext]_vars

\* C37: at most one step timer is active at any time, for every interleaving
\* of Play, Pause and Stop clicks and of the completions of the audio resume,
\* and after a Pause or a Stop no step timer is left running.
C37_AtMostOneStepTimer ==
    /\ Cardinality(seq.timers) <= 1
    /\ (lastOp.op \in {"handlePause", "handleStop"} /\ lastOp.res = "done") => seq.timers = {}

\* C38: the step index stays in [0, STEP_COUNT) and a tick moves it on by one
\* modulo STEP_COUNT; Stop resets it to 0; a Play issued while paused, and
\* completing while still paused, plays the step at which playback was
\* paused; a Play issued while stopped plays step 0.
C38_StepIndexFollowsTransport ==
    [][/\ seq'.stepRef \in 0..(STEP_COUNT - 1)
       /\ lastOp'.op = "stepTimer" => seq'.stepRef = (seq.stepRef + 1) % STEP_COUNT
       /\ lastOp'.op = "handleStop" => seq'.stepRef = 0
       /\ (lastOp'.op = "playResumed" /\ lastOp'.res = "continued" /\ seq.isPaused)
            => seq'.currentStep = seq.pausedAt
       /\ (lastOp'.op = "playResumed" /\ lastOp'.res = "restarted")
            => seq'.currentStep = 0]_vars

\* ---- the sound-font hook ----
\* loadScript(src, readyCheck): f is the hook after the call, now tells that
\* the promise returned is already resolved (the global is there); otherwise
\* the promise returned is the one kept for src in scriptPromisesRef
loadScript_noCache(F, src) ==
    IF F.ready[src] THEN [f |-> F, now |-> TRUE]
    ELSE [f |-> [F EXCEPT !.scripts[src] = @ + 1, !.scriptPromises[src] = "pending"],
          now |-> FALSE]
loadScript(F, src) ==
    IF F.ready[src] THEN [f |-> F, now |-> TRUE]
    ELSE IF F.scriptPromises[src] # "none" THEN [f |-> F, now |-> FALSE]
    ELSE IF F.scripts[src] > 0
         THEN \* a script element with this src exists: listen to it
              [f |-> [F EXCEPT !.scriptPromises[src] = "pending"], now |-> FALSE]
         ELSE [f |-> [F EXCEPT !.scripts[src] = @ + 1, !.scriptPromises[src] = "pending"],
               now |-> FALSE]

\* the effect that runs after the first render
mountEffect(F0) ==
    LET F == [F0 EXCEPT !.mounted = TRUE] IN
    loadScript(loadScript(F, "player").f, "instrument").f

\* the promise a call waits for has settled
Settled(F, c, src) == c.now \/ F.scriptPromises[src] \in {"resolved", "rejected"}
Rejected(F, c, src) == ~c.now /\ F.scriptPromises[src] = "rejected"

\* ensureAudio from the player and the decode request to its last await
requestInstrument(F) ==
    LET F1 == IF ~F.playerRef /\ F.ready["player"]
              THEN [F EXCEPT !.playerRef = TRUE, !.players = @ + 1]
              ELSE F
    IN IF F1.playerRef /\ ~F1.instrumentLoadRequestedRef
       THEN [F1 EXCEPT !.instrumentLoadRequestedRef = TRUE, !.decodes = @ + 1]
       ELSE F1

\* playNote: ensureAudio up to its first await
playNote(F) ==
    LET r == loadScript(F, "player") IN
    [r.f EXCEPT !.playing = Append(@, [pc |-> "player", now |-> r.now])]
\* ensureAudio after the player script: a rejected load ends the call in
\* playNote's catch
afterPlayer(F, i) ==
    IF Rejected(F, F.playing[i], "player") THEN [F EXCEPT !.playing[i].pc = "failed"]
    ELSE LET r == loadScript(F, "instrument") IN
         [r.f EXCEPT !.playing[i] = [pc |-> "instrument", now |-> r.now]]
\* ensureAudio after the instrument script: the context is created when the
\* ref is empty; a suspended context is resumed first
afterInstrument(F, i, suspended) ==
    IF Rejected(F, F.playing[i], "instrument") THEN [F EXCEPT !.playing[i].pc = "failed"]
    ELSE LET F1 == IF F.audioContextRef = "none"
                   THEN [F EXCEPT !.contexts = @ + 1,
                                  !.audioContextRef = IF suspended THEN "suspended"
                                                      ELSE "running"]
                   ELSE F
         IN IF F1.audioContextRef = "suspended"
            THEN [F1 EXCEPT !.playing[i].pc = "resume"]
            ELSE [requestInstrument(F1) EXCEPT !.playing[i].pc = "waiting"]
\* ensureAudio after resume()
resumed(F, i) ==
    [requestInstrument([F EXCEPT !.audioContextRef = "running"]) EXCEPT
        !.playing[i].pc = "waiting"]
\* waitForInstrumentReady has returned: the note is queued, or the call gives up
waitForInstrumentReady(F, i, ok) ==
    [F EXCEPT !.playing[i].pc = IF ok /\ F.playerRef THEN "done" ELSE "gaveUp"]

FontEvent(name, F) ==
    /\ font' = F
    /\ lastOp' = [NoOp EXCEPT !.op = name]
    /\ UNCHANGED <<engineVars, kb, seq, calls>>

Mount ==
    /\ ~font.mounted
    /\ FontEvent("mount", mountEffect(font))
PlayNote ==
    /\ font.mounted
    /\ Len(font.playing) < MaxNotes
    /\ FontEvent("playNote", playNote(font))
\* the script element of src fires load (its global is defined) or error
ScriptLoaded(src, ok) ==
    /\ font.scripts[src] > 0
    /\ font.scriptPromises[src] = "pending"
    /\ FontEvent("scriptLoaded",
                 [font EXCEPT !.scriptPromises[src] = IF ok THEN "resolved" ELSE "rejected",
                              !.ready[src] = ok])
AfterPlayer(i) ==
    /\ font.playing[i].pc = "player"
    /\ Settled(font, font.playing[i], "player")
    /\ FontEvent("afterPlayer", afterPlayer(font, i))
AfterInstrument(i, suspended) ==
    /\ font.playing[i].pc = "instrument"
    /\ Settled(font, font.playing[i], "instrument")
    /\ FontEvent("afterInstrument", afterInstrument(font, i, suspended))
Resumed(i) ==
    /\ font.playing[i].pc = "resume"
    /\ FontEvent("resumed", resumed(font, i))
InstrumentReady(i, ok) ==
    /\ font.playing[i].pc = "waiting"
    /\ FontEvent("instrumentReady", waitForInstrumentReady(font, i, ok))

FontNext ==
    \/ Mount
    \/ PlayNote
    \/ \E src \in ScriptUrls, ok \in BOOLEAN : ScriptLoaded(src, ok)
    \/ \E i \in 1..Len(font.playing) : AfterPlayer(i)
    \/ \E i \in 1..Len(font.playing), suspended \in BOOLEAN : AfterInstrument(i, suspended)
    \/ \E i \in 1..Len(font.playing) : Resumed(i)
    \/ \E i \in 1..Len(font.playing), ok \in BOOLEAN : InstrumentReady(i, ok)

FontSpec == Init /\ [][FontNext]_vars

\* C39: whatever the number and the interleaving of the playNote calls, at
\* most one script element is appended per script URL, at most one
\* AudioContext and one player are created, and the instrument decode is
\* requested at most once.
C39_OneOfEach ==
    /\ \A u \in ScriptUrls : font.scripts[u] <= 1
    /\ font.contexts <= 1
    /\ font.players <= 1
    /\ font.decodes <= 1

\* all the playNote calls of a run have been in flight together and have
\* queued their notes, on one context, one player and one decode
C39_Witness ==
    /\ Len(font.playing) = MaxNotes
    /\ \A i \in 1..MaxNotes : font.playing[i].pc = "done"
    /\ lastOp.op = "instrumentReady"
    /\ \A u \in ScriptUrls : font.scripts[u] = 1
    /\ font.contexts = 1
    /\ font.players = 1
    /\ font.decodes = 1
====
